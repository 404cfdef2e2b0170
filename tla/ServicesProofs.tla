---------------------------- MODULE ServicesProofs ----------------------------
(***************************************************************************)
(* Proofs about three machines around the World that have nothing to do    *)
(* with each other: processes that share a runtime directory, the captures *)
(* and the lock of a session, and a window on its way to the screen; for   *)
(* any number of processes, display names and captures, any sizes and      *)
(* zooms.                                                                  *)
(***************************************************************************)
EXTENDS InstancesProperties, CaptureProperties, MotionProperties, TLAPS

-----------------------------------------------------------------------------
(***************************************************************************)
(* Processes in one runtime directory                                      *)
(*                                                                         *)
(* The lock of a display name makes its holder the only process that       *)
(* touches the IPC path of the name, except that anybody may put a file    *)
(* there while it is free.  Hence what a process has seen at the path      *)
(* stays true over its steps: Held says what it knows where it is.         *)
(***************************************************************************)

Living == Starting \cup Serving

\* A live process holds the lock of its name.
Locked == \A p \in Processes : proc[p].at \in Living =>
            proc[p].name \in Names /\ lock[proc[p].name] = p

\* A process's socket is only ever at the path of its own name.
Named ==
  /\ \A p \in Processes : proc[p].at = "off" => proc[p].name = None
  /\ \A n \in Names, p \in Processes : socket[n] = p => proc[p].name = n

\* What a process knows of its path.
Known(p) ==
  LET here == socket[proc[p].name]
  IN  /\ proc[p].at \in {"connecting", "inspecting"} => here # None
      /\ proc[p].at = "removing" => here \in Processes
      /\ proc[p].at = "rebinding" => here \in {None, Stray}
      /\ proc[p].at \in {"bound", "ready", "cleaning"} => here = p
      /\ proc[p].at = "refused" => proc[p].name \in Names /\ here = Stray

Held == \A p \in Processes : Known(p)

InstancesInv == InstancesTypeOK /\ Locked /\ Named /\ Held

\* What the last steps need to expand: the places a process can be at.
LEMMA Places ==
  /\ Living = {"named", "connecting", "inspecting", "removing", "rebinding", "bound",
               "ready", "cleaning", "leaving"}
  /\ Ended = {"done", "refused", "crashed"}
  BY DEF Living, Starting, Serving, Ended

\* Nothing runs at first, and no path is taken.
LEMMA InitInstances == InstancesInit => InstancesInv
  BY InstancesAssumption
  DEF InstancesInit, InstancesInv, InstancesTypeOK, Locked, Named, Held, Known, Living, Starting, Serving,
      Ended

\* A step of p from one place to another that leaves the lock and the socket alone.
LEMMA Moves ==
  ASSUME InstancesInv, NEW p \in Processes, NEW from, NEW to \in Living,
         Goes(p, from, to), from \in Living, UNCHANGED <<lock, socket>>,
         Known(p)'
  PROVE  InstancesInv'
PROOF
  <1>0. /\ proc' = [proc EXCEPT ![p] = [proc[p] EXCEPT !.at = to]]
        /\ proc[p].at = from
    BY DEF Goes, InstancesInv, InstancesTypeOK
  <1>1. /\ proc'[p].at = to /\ proc'[p].name = proc[p].name
        /\ \A q \in Processes \ {p} : proc'[q] = proc[q]
    BY <1>0 DEF InstancesInv, InstancesTypeOK
  <1>2. InstancesTypeOK'
    BY <1>0, Places DEF InstancesInv, InstancesTypeOK, Living
  <1>3. Locked'
    BY <1>0, <1>1 DEF InstancesInv, Locked
  <1>4. Named'
    BY <1>1, Places DEF InstancesInv, Named
  <1>5. Held'
    <2>1. ASSUME NEW q \in Processes PROVE Known(q)'
      <3>1. CASE q = p
        BY <3>1
      <3>2. CASE q # p
        BY <3>2, <1>1 DEF InstancesInv, Held, Known
      <3> QED BY <3>1, <3>2
    <2> QED BY <2>1 DEF Held
  <1> QED BY <1>2, <1>3, <1>4, <1>5 DEF InstancesInv

\* A process that ends gives its name back, and knows nothing any more unless it
\* has been refused.
LEMMA Stops ==
  ASSUME InstancesInv, NEW p \in Processes, NEW how \in Ended, Ends(p, how),
         proc[p].at \in Living, how = "refused" => socket[proc[p].name] = Stray
  PROVE  InstancesInv'
PROOF
  <1>0. /\ proc' = [proc EXCEPT ![p] = [proc[p] EXCEPT !.at = how]]
        /\ lock' = [lock EXCEPT ![proc[p].name] = None] /\ socket' = socket
    BY DEF Ends, InstancesInv, InstancesTypeOK
  <1>n. proc[p].name \in Names /\ lock[proc[p].name] = p
    BY DEF InstancesInv, Locked
  <1>1. /\ proc'[p].at = how /\ proc'[p].name = proc[p].name
        /\ \A q \in Processes \ {p} : proc'[q] = proc[q]
    BY <1>0 DEF InstancesInv, InstancesTypeOK
  <1>2. InstancesTypeOK'
    BY <1>0, <1>n DEF InstancesInv, InstancesTypeOK
  <1>3. Locked'
    <2>1. ASSUME NEW q \in Processes, proc'[q].at \in Living
          PROVE  proc'[q].name \in Names /\ lock'[proc'[q].name] = q
      <3>1. q # p
        BY <2>1, <1>1, Places
      <3>2. proc'[q] = proc[q] /\ proc[q].name \in Names /\ lock[proc[q].name] = q
        BY <2>1, <3>1, <1>1 DEF InstancesInv, Locked
      <3> QED BY <3>1, <3>2, <1>0, <1>n DEF InstancesInv, InstancesTypeOK
    <2> QED BY <2>1 DEF Locked
  <1>4. Named'
    BY <1>0, <1>1, Places DEF InstancesInv, Named
  <1>5. Held'
    <2>1. ASSUME NEW q \in Processes PROVE Known(q)'
      <3>1. CASE q = p
        BY <3>1, <1>0, <1>1, <1>n DEF Known, Ended
      <3>2. CASE q # p
        BY <3>2, <1>0, <1>1 DEF InstancesInv, Held, Known
      <3> QED BY <3>1, <3>2
    <2> QED BY <2>1 DEF Held
  <1> QED BY <1>2, <1>3, <1>4, <1>5 DEF InstancesInv

\* The holder of a name changes what is at its path.
LEMMA Changes ==
  ASSUME InstancesInv, NEW p \in Processes, NEW from, NEW to \in Living, NEW what \in {p, None},
         Goes(p, from, to), from \in Living, UNCHANGED lock,
         socket' = [socket EXCEPT ![proc[p].name] = what],
         socket[proc[p].name] # Stray,
         Known(p)'
  PROVE  InstancesInv'
PROOF
  <1>0. /\ proc' = [proc EXCEPT ![p] = [proc[p] EXCEPT !.at = to]]
        /\ proc[p].at = from
    BY DEF Goes, InstancesInv, InstancesTypeOK
  <1>n. proc[p].name \in Names /\ lock[proc[p].name] = p
    BY <1>0 DEF InstancesInv, Locked
  <1>1. /\ proc'[p].at = to /\ proc'[p].name = proc[p].name
        /\ \A q \in Processes \ {p} : proc'[q] = proc[q]
    BY <1>0 DEF InstancesInv, InstancesTypeOK
  <1>s. /\ socket'[proc[p].name] = what
        /\ \A n \in Names \ {proc[p].name} : socket'[n] = socket[n]
    BY <1>n DEF InstancesInv, InstancesTypeOK
  <1>2. InstancesTypeOK'
    BY <1>0, <1>n, Places DEF InstancesInv, InstancesTypeOK, Living
  <1>3. Locked'
    BY <1>0, <1>1 DEF InstancesInv, Locked
  <1>4. Named'
    BY <1>1, <1>s, InstancesAssumption, Places DEF InstancesInv, Named
  <1>5. Held'
    <2>1. ASSUME NEW q \in Processes PROVE Known(q)'
      <3>1. CASE q = p
        BY <3>1
      <3>2. CASE q # p
        <4>1. proc'[q] = proc[q] /\ Known(q)
          BY <3>2, <1>1 DEF InstancesInv, Held
        <4>2. CASE proc[q].at \in Living
          <5>1. proc[q].name \in Names /\ proc[q].name # proc[p].name
            BY <4>2, <3>2, <1>n DEF InstancesInv, Locked
          <5> QED BY <4>1, <5>1, <1>s DEF Known
        <4>3. CASE proc[q].at = "refused"
          <5>1. proc[q].name \in Names /\ proc[q].name # proc[p].name
            BY <4>1, <4>3 DEF Known
          <5> QED BY <4>1, <4>3, <5>1, <1>s DEF Known
        <4>4. CASE proc[q].at \notin Living \cup {"refused"}
          BY <4>1, <4>4, Places DEF Known
        <4> QED BY <4>2, <4>3, <4>4
      <3> QED BY <3>1, <3>2
    <2> QED BY <2>1 DEF Held
  <1> QED BY <1>2, <1>3, <1>4, <1>5 DEF InstancesInv

-----------------------------------------------------------------------------
(* Every step preserves the invariant *)

\* Taking a free name: nobody else is live with it.
LEMMA TakeNameStep ==
  ASSUME InstancesInv, NEW p \in Processes, TakeName(p)
  PROVE  InstancesInv'
PROOF
  <1>1. PICK n \in Names :
          /\ proc[p].at = "off" /\ lock[n] = None
          /\ lock' = [lock EXCEPT ![n] = p]
          /\ proc' = [proc EXCEPT ![p] = [at |-> "named", name |-> n]]
          /\ socket' = socket
    BY DEF TakeName
  <1>2. /\ proc'[p] = [at |-> "named", name |-> n]
        /\ \A q \in Processes \ {p} : proc'[q] = proc[q]
        /\ lock'[n] = p /\ \A m \in Names \ {n} : lock'[m] = lock[m]
    BY <1>1 DEF InstancesInv, InstancesTypeOK
  <1>3. InstancesTypeOK'
    BY <1>1, Places DEF InstancesInv, InstancesTypeOK, Living
  <1>4. Locked'
    <2>1. ASSUME NEW q \in Processes, proc'[q].at \in Living
          PROVE  proc'[q].name \in Names /\ lock'[proc'[q].name] = q
      <3>1. CASE q = p
        BY <3>1, <1>2
      <3>2. CASE q # p
        <4>1. proc'[q] = proc[q] /\ proc[q].name \in Names /\ lock[proc[q].name] = q
          BY <2>1, <3>2, <1>2 DEF InstancesInv, Locked
        <4> QED BY <4>1, <1>1, <1>2, InstancesAssumption
      <3> QED BY <3>1, <3>2
    <2> QED BY <2>1 DEF Locked
  <1>5. Named'
    <2>1. \A m \in Names : socket[m] # p
      BY <1>1, InstancesAssumption DEF InstancesInv, Named
    <2> QED BY <2>1, <1>1, <1>2 DEF InstancesInv, Named
  <1>6. Held'
    <2>1. ASSUME NEW q \in Processes PROVE Known(q)'
      <3>1. CASE q = p
        BY <3>1, <1>2 DEF Known
      <3>2. CASE q # p
        BY <3>2, <1>1, <1>2 DEF InstancesInv, Held, Known
      <3> QED BY <3>1, <3>2
    <2> QED BY <2>1 DEF Held
  <1> QED BY <1>3, <1>4, <1>5, <1>6 DEF InstancesInv

LEMMA StartStepKeeps ==
  ASSUME InstancesInv, NEW p \in Processes, StartStep(p)
  PROVE  InstancesInv'
PROOF
  <1>p. Known(p) /\ proc[p] \in [at : {"off"} \cup Starting \cup Serving \cup Ended,
                                name : Names \cup {None}]
    BY DEF InstancesInv, Held, InstancesTypeOK
  <1>1. CASE FirstBind(p)
    <2>1. CASE socket[proc[p].name] = None /\ socket' = [socket EXCEPT ![proc[p].name] = p]
               /\ Goes(p, "named", "bound") /\ UNCHANGED lock
      <3>1. Known(p)'
        <4>1. proc[p].name \in Names /\ proc[p].at = "named"
          BY <2>1, Places DEF Goes, InstancesInv, Locked
        <4>2. proc'[p].at = "bound" /\ proc'[p].name = proc[p].name
          BY <2>1, <1>p DEF Goes, InstancesInv, InstancesTypeOK
        <4> QED BY <2>1, <4>1, <4>2 DEF Known, InstancesInv, InstancesTypeOK
      <3>2. socket[proc[p].name] # Stray
        BY <2>1, InstancesAssumption
      <3> QED BY <2>1, <3>1, <3>2, Places, Changes
    <2>2. CASE socket[proc[p].name] # None /\ Goes(p, "named", "connecting")
               /\ UNCHANGED <<lock, socket>>
      <3>1. Known(p)'
        BY <2>2, <1>p DEF Goes, Known, InstancesInv, InstancesTypeOK
      <3> QED BY <2>2, <3>1, Places, Moves
    <2> QED BY <1>1, <2>1, <2>2 DEF FirstBind, Bind
  <1>2. CASE Connect(p)
    <2> DEFINE owner == socket[proc[p].name]
    <2>a. proc[p].at = "connecting"
      BY <1>2 DEF Connect
    <2>n. proc[p].name \in Names /\ lock[proc[p].name] = p
      BY <2>a, Places DEF InstancesInv, Locked
    <2>1. ~ (owner \in Processes /\ Listening(owner))
      <3>1. SUFFICES ASSUME owner \in Processes, Listening(owner) PROVE FALSE
        OBVIOUS
      <3>2. proc[owner].name = proc[p].name /\ proc[owner].at \in Living
        BY <3>1, <2>n, Places DEF Listening, InstancesInv, Named
      <3>3. lock[proc[p].name] = owner
        BY <3>1, <3>2 DEF InstancesInv, Locked
      <3> QED BY <3>1, <3>3, <2>n, <2>a DEF Listening
    <2>2. Goes(p, "connecting", "inspecting") /\ UNCHANGED <<lock, socket>>
      BY <1>2, <2>1 DEF Connect
    <2>3. Known(p)'
      BY <2>2, <1>p DEF Goes, Known, InstancesInv, InstancesTypeOK
    <2> QED BY <2>2, <2>3, Places, Moves
  <1>3. CASE Inspect(p)
    <2>a. proc[p].at = "inspecting"
      BY <1>3 DEF Inspect
    <2>1. CASE socket[proc[p].name] \in Processes
      <3>1. Goes(p, "inspecting", "removing") /\ UNCHANGED <<lock, socket>>
        BY <1>3, <2>1 DEF Inspect
      <3>2. Known(p)'
        BY <3>1, <2>1, <1>p DEF Goes, Known, InstancesInv, InstancesTypeOK
      <3> QED BY <3>1, <3>2, Places, Moves
    <2>2. CASE socket[proc[p].name] \notin Processes
      <3>1. Ends(p, "refused")
        BY <1>3, <2>2 DEF Inspect
      <3>2. proc[p].name \in Names /\ socket[proc[p].name] # None
        BY <2>a, <1>p, Places DEF Known, InstancesInv, Locked
      <3>3. socket[proc[p].name] = Stray
        BY <3>2, <2>2 DEF InstancesInv, InstancesTypeOK
      <3> QED BY <3>1, <3>3, <2>a, Places, Stops
    <2> QED BY <2>1, <2>2
  <1>4. CASE RemoveSocket(p)
    <2>a. proc[p].at = "removing" /\ socket[proc[p].name] \in Processes
      BY <1>4, <1>p DEF RemoveSocket, Known
    <2>1. /\ Goes(p, "removing", "rebinding") /\ UNCHANGED lock
          /\ socket' = [socket EXCEPT ![proc[p].name] = None]
      BY <1>4, <2>a, InstancesAssumption DEF RemoveSocket
    <2>2. Known(p)'
      <3>1. proc[p].name \in Names
        BY <2>a, Places DEF InstancesInv, Locked
      <3>2. proc'[p].at = "rebinding" /\ proc'[p].name = proc[p].name
        BY <2>1, <1>p DEF Goes, InstancesInv, InstancesTypeOK
      <3> QED BY <2>1, <3>1, <3>2 DEF Known, InstancesInv, InstancesTypeOK
    <2>3. socket[proc[p].name] # Stray
      BY <2>a, InstancesAssumption
    <2> QED BY <2>1, <2>2, <2>3, Places, Changes
  <1>5. CASE SecondBind(p)
    <2>a. proc[p].at = "rebinding"
      BY <1>5 DEF SecondBind, Bind
    <2>1. CASE socket[proc[p].name] = None /\ socket' = [socket EXCEPT ![proc[p].name] = p]
               /\ Goes(p, "rebinding", "bound") /\ UNCHANGED lock
      <3>1. Known(p)'
        <4>1. proc[p].name \in Names
          BY <2>a, Places DEF InstancesInv, Locked
        <4>2. proc'[p].at = "bound" /\ proc'[p].name = proc[p].name
          BY <2>1, <1>p DEF Goes, InstancesInv, InstancesTypeOK
        <4> QED BY <2>1, <4>1, <4>2 DEF Known, InstancesInv, InstancesTypeOK
      <3>2. socket[proc[p].name] # Stray
        BY <2>1, InstancesAssumption
      <3> QED BY <2>1, <3>1, <3>2, Places, Changes
    <2>2. CASE socket[proc[p].name] # None /\ Ends(p, "refused")
      <3>1. socket[proc[p].name] = Stray
        BY <2>a, <2>2, <1>p DEF Known
      <3> QED BY <2>2, <2>a, <3>1, Places, Stops
    <2> QED BY <1>5, <2>1, <2>2 DEF SecondBind, Bind
  <1>6. CASE Secure(p)
    <2>a. proc[p].at = "bound" /\ socket[proc[p].name] = p
      BY <1>6, <1>p DEF Secure, Known
    <2>1. Goes(p, "bound", "ready") /\ UNCHANGED <<lock, socket>>
      BY <1>6, <2>a, InstancesAssumption DEF Secure
    <2>2. Known(p)'
      BY <2>1, <2>a, <1>p DEF Goes, Known, InstancesInv, InstancesTypeOK
    <2> QED BY <2>1, <2>2, Places, Moves
  <1> QED BY <1>1, <1>2, <1>3, <1>4, <1>5, <1>6 DEF StartStep

LEMMA EndStepKeeps ==
  ASSUME InstancesInv, NEW p \in Processes, Cleanup(p) \/ Exit(p) \/ Quit(p) \/ Crash(p)
  PROVE  InstancesInv'
PROOF
  <1>p. Known(p) /\ proc[p] \in [at : {"off"} \cup Starting \cup Serving \cup Ended,
                                name : Names \cup {None}]
    BY DEF InstancesInv, Held, InstancesTypeOK
  <1>1. CASE Cleanup(p)
    <2>a. proc[p].at = "cleaning" /\ socket[proc[p].name] = p
      BY <1>1, <1>p DEF Cleanup, Goes, Known
    <2>1. /\ Goes(p, "cleaning", "leaving") /\ UNCHANGED lock
          /\ socket' = [socket EXCEPT ![proc[p].name] = None]
      BY <1>1 DEF Cleanup
    <2>2. Known(p)'
      BY <2>1, <1>p DEF Goes, Known, InstancesInv, InstancesTypeOK
    <2>3. socket[proc[p].name] # Stray
      BY <2>a, InstancesAssumption
    <2> QED BY <2>1, <2>2, <2>3, Places, Changes
  <1>2. CASE Exit(p)
    BY <1>2, Places, Stops DEF Exit
  <1>3. CASE Quit(p)
    <2>1. Goes(p, "ready", "cleaning") /\ UNCHANGED <<lock, socket>>
      BY <1>3 DEF Quit
    <2>2. Known(p)'
      BY <2>1, <1>p DEF Goes, Known, InstancesInv, InstancesTypeOK
    <2> QED BY <2>1, <2>2, Places, Moves
  <1>4. CASE Crash(p)
    BY <1>4, Places, Stops DEF Crash, Living
  <1> QED BY <1>1, <1>2, <1>3, <1>4

\* A file appears only where nothing is.
LEMMA PutFileKeeps ==
  ASSUME InstancesInv, NEW n \in Names, PutFile(n)
  PROVE  InstancesInv'
PROOF
  <1>1. /\ socket[n] = None /\ socket' = [socket EXCEPT ![n] = Stray]
        /\ lock' = lock /\ proc' = proc
    BY DEF PutFile
  <1>2. socket'[n] = Stray /\ \A m \in Names \ {n} : socket'[m] = socket[m]
    BY <1>1 DEF InstancesInv, InstancesTypeOK
  <1>3. InstancesTypeOK' /\ Locked' /\ Named'
    BY <1>1, InstancesAssumption DEF InstancesInv, InstancesTypeOK, Locked, Named
  <1>4. ASSUME NEW q \in Processes PROVE Known(q)'
    <2>1. Known(q)
      BY DEF InstancesInv, Held
    <2>2. CASE proc[q].name = n
      BY <1>1, <1>2, <2>1, <2>2, InstancesAssumption DEF Known
    <2>3. CASE proc[q].name # n
      BY <1>1, <2>1, <2>3 DEF Known, InstancesInv, InstancesTypeOK
    <2> QED BY <2>2, <2>3
  <1> QED BY <1>3, <1>4 DEF InstancesInv, Held

LEMMA InstancesKept == InstancesInv /\ [InstancesNext]_instance_vars => InstancesInv'
PROOF
  <1> SUFFICES ASSUME InstancesInv, [InstancesNext]_instance_vars PROVE InstancesInv'
    OBVIOUS
  <1>1. ASSUME NEW p \in Processes, TakeName(p) PROVE InstancesInv'
    BY <1>1, TakeNameStep
  <1>2. ASSUME NEW p \in Processes, StartStep(p) PROVE InstancesInv'
    BY <1>2, StartStepKeeps
  <1>3. ASSUME NEW p \in Processes, EndStep(p) \/ Quit(p) \/ Crash(p) PROVE InstancesInv'
    BY <1>3, EndStepKeeps DEF EndStep
  <1>4. ASSUME NEW n \in Names, PutFile(n) PROVE InstancesInv'
    BY <1>4, PutFileKeeps
  <1>5. CASE UNCHANGED instance_vars
    BY <1>5 DEF instance_vars, InstancesInv, InstancesTypeOK, Locked, Named, Held, Known
  <1> QED BY <1>1, <1>2, <1>3, <1>4, <1>5 DEF InstancesNext

LEMMA InstancesInvariant == InstancesSpec => []InstancesInv
  BY InitInstances, InstancesKept, PTL DEF InstancesSpec

-----------------------------------------------------------------------------
(* What follows *)

\* Type correctness of processes in one runtime directory (main.rs, ipc.rs).
THEOREM InstancesTypeCorrect == InstancesSpec => []InstancesTypeOK
  BY InstancesInvariant, PTL DEF InstancesInv

\* A process that serves is the one its clients reach, however many start, quit,
\* crash and take over (bind_ipc_listener, cleanup).
THEOREM ReadyIsReached == InstancesSpec => []ReadyReachable
PROOF
  <1>1. InstancesInv => ReadyReachable
    BY DEF InstancesInv, Held, Known, ReadyReachable
  <1> QED BY <1>1, InstancesInvariant, PTL

\* Only a file that is no socket keeps a process from starting.
THEOREM OnlyFilesRefuse == InstancesSpec => []RefusedOnlyByFile
PROOF
  <1>1. InstancesInv => RefusedOnlyByFile
    BY DEF InstancesInv, Held, Known, RefusedOnlyByFile
  <1> QED BY <1>1, InstancesInvariant, PTL

\* Nothing that is no socket is ever removed from a path.
THEOREM FilesStay == InstancesSpec => FileKept
PROOF
  <1>1. InstancesInv /\ [InstancesNext]_instance_vars
          => [\A n \in Names : socket[n] = Stray => socket'[n] = Stray]_instance_vars
    <2> SUFFICES ASSUME InstancesInv, InstancesNext, NEW n \in Names, socket[n] = Stray
                 PROVE  socket'[n] = Stray
      OBVIOUS
    <2>1. CASE UNCHANGED socket
      BY <2>1
    <2>2. ASSUME NEW p \in Processes, NEW what \in {p, None},
                 socket' = [socket EXCEPT ![proc[p].name] = what],
                 socket[proc[p].name] # Stray
          PROVE  socket'[n] = Stray
      BY <2>2 DEF InstancesInv, InstancesTypeOK
    <2>3. ASSUME NEW p \in Processes, Known(p), StartStep(p), ~ UNCHANGED socket
          PROVE  socket'[n] = Stray
      <3>1. PICK what \in {p, None} :
              /\ socket' = [socket EXCEPT ![proc[p].name] = what]
              /\ socket[proc[p].name] = None \/ proc[p].at = "removing"
        BY <2>3 DEF StartStep, FirstBind, Connect, Inspect, RemoveSocket, SecondBind, Secure,
                    Bind, Goes, Ends
      <3>2. socket[proc[p].name] # Stray
        BY <3>1, <2>3, InstancesAssumption DEF Known
      <3> QED BY <3>1, <3>2, <2>2
    <2>4. ASSUME NEW p \in Processes, Known(p), Cleanup(p) PROVE socket'[n] = Stray
      BY <2>4, <2>2, InstancesAssumption DEF Cleanup, Goes, Known
    <2>5. ASSUME NEW m \in Names, PutFile(m) PROVE socket'[n] = Stray
      BY <2>5 DEF PutFile, InstancesInv, InstancesTypeOK
    <2> QED
      BY <2>1, <2>3, <2>4, <2>5
      DEF InstancesNext, TakeName, EndStep, Exit, Quit, Crash, Goes, Ends, InstancesInv, Held
  <1> QED BY <1>1, InstancesInvariant, PTL DEF InstancesSpec, FileKept

-----------------------------------------------------------------------------
(***************************************************************************)
(* Captures and the session lock                                           *)
(*                                                                         *)
(* The invariant is about one capture at a time: what its frame object has *)
(* been told, painted with and lent agrees with its place in the queue.    *)
(* Steps of one capture leave the others alone; a frame answers many, each *)
(* by its own record.                                                      *)
(***************************************************************************)

FrameObject == [at : {"open", "asked", "gone"}, kind : {"screencopy", "image_copy"}, cursor : BOOLEAN,
          used : BOOLEAN, answers : {0, 1}, picture : {"none", "desktop", "lock"},
          painted : BOOLEAN, lent : BOOLEAN, refused : BOOLEAN]

NoFrameObject == [at : {"none", "over"}]

\* A frame object that agrees with its place in the queue, by backend b.
Sound(r, queued, b) ==
  \/ r \in NoFrameObject /\ ~queued
  \/ /\ r \in FrameObject
     /\ r.at = "open" => ~r.used /\ r.answers = 0 /\ ~r.lent /\ r.picture = "none" /\ ~queued
     /\ r.at # "open" => r.used
     /\ queued => r.answers = 0 /\ r.picture = "none"
     /\ r.lent => queued
     /\ b = "direct" /\ r.picture # "none" => r.painted = r.cursor

Sounds == \A c \in Captures : Sound(capture[c], c \in pending, backend)

Types ==
  /\ backend \in {"nested", "direct"} /\ running \in BOOLEAN /\ output \in BOOLEAN
  /\ session \in [on : BOOLEAN, confirm : BOOLEAN]
  /\ config_error \in BOOLEAN /\ redraw \in BOOLEAN
  /\ click \in {NoClick} \cup [kind : Clicks, due : BOOLEAN]
  /\ screen \in [scene : {"off", "lock", "desktop"}, error : BOOLEAN]
  /\ DOMAIN capture = Captures /\ capture = [c \in Captures |-> capture[c]]
  /\ pending \subseteq Captures

\* What steps that touch captures have to keep.
Queued ==
  /\ Sounds /\ pending \subseteq Captures
  /\ DOMAIN capture = Captures /\ capture = [c \in Captures |-> capture[c]]

CaptureInv == Types /\ Sounds /\ ConfirmedIsShown

-----------------------------------------------------------------------------
(* One frame object *)

\* The two kinds of records are told apart by where they are.
LEMMA Apart ==
  /\ \A r \in FrameObject : r.at \in {"open", "asked", "gone"}
  /\ \A r \in NoFrameObject : r.at \in {"none", "over"}
  BY DEF FrameObject, NoFrameObject

LEMMA OpenedSound ==
  ASSUME NEW kind \in {"screencopy", "image_copy"}, NEW cursor \in BOOLEAN, NEW b
  PROVE  /\ Sound(Opened(kind, cursor), FALSE, b)
         /\ Sound([Opened(kind, cursor) EXCEPT !.at = "asked", !.used = TRUE], TRUE, b)
PROOF
  <1> DEFINE r == Opened(kind, cursor)
             asked == [r EXCEPT !.at = "asked", !.used = TRUE]
  <1>1. r \in FrameObject /\ asked \in FrameObject
    BY DEF Opened, FrameObject
  <1>2. /\ r.at = "open" /\ r.used = FALSE /\ r.answers = 0 /\ r.lent = FALSE /\ r.picture = "none"
        /\ asked.at = "asked" /\ asked.used = TRUE /\ asked.answers = 0 /\ asked.lent = FALSE
        /\ asked.picture = "none"
    BY DEF Opened
  <1> HIDE DEF r, asked
  <1>3. Sound(r, FALSE, b) /\ Sound(asked, TRUE, b)
    BY <1>1, <1>2 DEF Sound
  <1> QED BY <1>3 DEF r, asked

LEMMA OverSound == ASSUME NEW b PROVE Sound(Over, FALSE, b)
  BY DEF Sound, Over, NoFrameObject

\* A frame object that goes stays in the queue if it was there.
LEMMA LeftSound ==
  ASSUME NEW c \in Captures, Sound(capture[c], c \in pending, backend), Alive(c)
  PROVE  Sound(Left(c), c \in pending, backend)
PROOF
  <1>1. capture[c] \in FrameObject
    BY Apart DEF Sound, Alive
  <1>2. CASE c \in pending
    <2>1. capture[c].at # "open"
      BY <1>2, <1>1, Apart DEF Sound
    <2>2. /\ Left(c) \in FrameObject /\ Left(c).at = "gone" /\ Left(c).used = capture[c].used
          /\ Left(c).answers = capture[c].answers /\ Left(c).picture = capture[c].picture
          /\ Left(c).painted = capture[c].painted /\ Left(c).cursor = capture[c].cursor
      BY <1>1, <1>2 DEF FrameObject, Left
    <2>3. /\ capture[c].used /\ capture[c].answers = 0 /\ capture[c].picture = "none"
      BY <1>1, <1>2, <2>1, Apart DEF Sound
    <2> QED BY <1>2, <2>2, <2>3 DEF Sound
  <1>3. CASE c \notin pending
    BY <1>3 DEF Left, Over, Sound, NoFrameObject
  <1> QED BY <1>2, <1>3

\* What is asked for the first time is queued.
LEMMA EnqueuedSound ==
  ASSUME NEW r \in FrameObject, NEW b, Sound(r, FALSE, b), ~r.used
  PROVE  Sound([r EXCEPT !.at = "asked", !.used = TRUE, !.lent = (r.lent \/ r.kind = "screencopy")],
               TRUE, b)
  BY Apart DEF Sound, FrameObject

\* What is told to a frame object while the session is locked leaves it where it is.
LEMMA RefusedSound ==
  ASSUME NEW r, NEW q \in BOOLEAN, NEW b, Sound(r, q, b), r \in FrameObject
  PROVE  Sound([r EXCEPT !.refused = TRUE], q, b)
PROOF
  <1> DEFINE now == [r EXCEPT !.refused = TRUE]
  <1>1. /\ now \in FrameObject /\ now.at = r.at /\ now.used = r.used /\ now.kind = r.kind
        /\ now.answers = r.answers /\ now.lent = r.lent /\ now.picture = r.picture
        /\ now.painted = r.painted /\ now.cursor = r.cursor
    BY DEF FrameObject
  <1> HIDE DEF now
  <1>2. Sound(now, q, b)
    BY <1>1, Apart DEF Sound
  <1> QED BY <1>2 DEF now

\* An answer takes a frame object out of the queue.
LEMMA AnswerSound ==
  ASSUME NEW r, NEW b, Sound(r, TRUE, b), NEW scene \in {"lock", "desktop"},
         NEW painted \in BOOLEAN, NEW broken \in BOOLEAN,
         b = "direct" /\ r.at # "gone" => painted = r.cursor
  PROVE  Sound(Answer(r, scene, painted, broken), FALSE, b)
PROOF
  <1>1. r \in FrameObject /\ r.at # "open" /\ r.used /\ r.answers = 0 /\ r.picture = "none"
    BY DEF Sound
  <1>2. CASE r.at = "gone"
    BY <1>2, OverSound DEF Answer
  <1>3. CASE r.at # "gone" /\ broken
    <2>1. Answer(r, scene, painted, broken) = [r EXCEPT !.answers = 1, !.lent = FALSE]
      <3>1. Told(r) = [r EXCEPT !.answers = 1]
        BY <1>1 DEF Told
      <3> QED BY <1>1, <1>3, <3>1 DEF Answer, FrameObject
    <2> DEFINE now == Answer(r, scene, painted, broken)
    <2>2. /\ now \in FrameObject /\ now.at = r.at /\ now.used = r.used /\ now.answers = 1
          /\ now.lent = FALSE /\ now.picture = r.picture
      BY <1>1, <2>1 DEF FrameObject
    <2> HIDE DEF now
    <2>3. Sound(now, FALSE, b)
      BY <1>1, <2>2 DEF Sound
    <2> QED BY <2>3 DEF now
  <1>4. CASE r.at # "gone" /\ ~broken
    <2>1. Answer(r, scene, painted, broken)
            = [r EXCEPT !.answers = 1, !.picture = scene, !.painted = painted, !.lent = FALSE]
      BY <1>1, <1>4 DEF Answer, Told, FrameObject
    <2> DEFINE now == Answer(r, scene, painted, broken)
    <2>2. /\ now \in FrameObject /\ now.at = r.at /\ now.used = r.used /\ now.answers = 1
          /\ now.lent = FALSE /\ now.picture = scene /\ now.painted = painted
          /\ now.cursor = r.cursor
      BY <1>1, <2>1 DEF FrameObject
    <2> HIDE DEF now
    <2>3. Sound(now, FALSE, b)
      BY <1>1, <1>4, <2>2 DEF Sound
    <2> QED BY <2>3 DEF now
  <1> QED BY <1>2, <1>3, <1>4

-----------------------------------------------------------------------------
(* Steps of clients *)

\* A step that changes one frame object at most, and may put it in the queue.
LEMMA OneChanges ==
  ASSUME Types, Sounds, NEW c \in Captures, NEW r, NEW q \in BOOLEAN,
         capture' = [capture EXCEPT ![c] = r], backend' = backend,
         pending' \subseteq Captures, c \in pending' <=> q,
         \A d \in Captures \ {c} : d \in pending' <=> d \in pending,
         Sound(r, q, backend)
  PROVE  Queued'
PROOF
  <1>1. /\ capture'[c] = r /\ DOMAIN capture' = Captures
        /\ \A d \in Captures \ {c} : capture'[d] = capture[d]
        /\ capture' = [d \in Captures |-> capture'[d]]
    BY DEF Types
  <1>2. ASSUME NEW d \in Captures PROVE Sound(capture'[d], d \in pending', backend')
    <2>1. CASE d = c
      <3>1. CASE q
        BY <1>1, <2>1, <3>1 DEF Sound
      <3>2. CASE ~q
        BY <1>1, <2>1, <3>2 DEF Sound
      <3> QED BY <3>1, <3>2
    <2>2. CASE d # c
      <3>1. Sound(capture[d], d \in pending, backend) /\ capture'[d] = capture[d]
        BY <2>2, <1>1 DEF Sounds
      <3>2. d \in pending' <=> d \in pending
        BY <2>2
      <3> QED BY <3>1, <3>2 DEF Sound
    <2> QED BY <2>1, <2>2
  <1> QED BY <1>1, <1>2 DEF Sounds, Queued

\* A client that destroys its frame, or is ended by a protocol error.
LEMMA Gone ==
  ASSUME Types, Sounds, NEW c \in Captures, Alive(c), backend' = backend, pending' = pending,
         capture' = [capture EXCEPT ![c] = Left(c)]
  PROVE  Queued'
PROOF
  <1>1. Sound(Left(c), c \in pending, backend)
    BY LeftSound DEF Sounds
  <1>2. pending' \subseteq Captures
    BY DEF Types
  <1>3. CASE c \in pending
    <2>1. Sound(Left(c), TRUE, backend) /\ (c \in pending' <=> TRUE)
      BY <1>1, <1>3 DEF Sound
    <2> QED BY <2>1, <1>2, OneChanges
  <1>4. CASE c \notin pending
    <2>1. Sound(Left(c), FALSE, backend) /\ (c \in pending' <=> FALSE)
      BY <1>1, <1>4 DEF Sound
    <2> QED BY <2>1, <1>2, OneChanges
  <1> QED BY <1>3, <1>4

\* A new frame object, or one that is over at once.
LEMMA Comes ==
  ASSUME Types, Sounds, NEW c \in Captures, capture[c].at = "none", backend' = backend,
         NEW r, NEW q \in BOOLEAN, Sound(r, q, backend),
         capture' = [capture EXCEPT ![c] = r],
         pending' = IF q THEN pending \cup {c} ELSE pending
  PROVE  Queued'
PROOF
  <1>1. c \notin pending
    BY Apart DEF Sounds, Sound
  <1>2. pending' \subseteq Captures /\ (c \in pending' <=> q)
        /\ \A d \in Captures \ {c} : d \in pending' <=> d \in pending
    BY <1>1 DEF Types
  <1> QED BY <1>2, OneChanges

\* The rest of the types, for a step of a client.
LEMMA ClientTypes ==
  ASSUME Types, UNCHANGED <<backend, running, output, session, config_error, click, screen>>,
         Wake \/ UNCHANGED redraw, Queued'
  PROVE  Types'
  BY DEF Types, Wake, Queued

LEMMA ClientKeeps ==
  ASSUME CaptureInv, NEW c \in Captures, Client(c)
  PROVE  CaptureInv'
PROOF
  <1>0. Types /\ Sounds /\ pending \subseteq Captures
    BY DEF CaptureInv, Types
  <1>1. UNCHANGED <<backend, running, output, session, config_error, click, screen>>
    BY DEF Client, ImageFrame, OpenScreencopy, Copy, Destroy
  <1>2. Wake \/ UNCHANGED redraw
    BY DEF Client, ImageFrame, OpenScreencopy, Copy, Destroy
  <1>3. Queued'
    <2>1. ASSUME NEW cursor \in BOOLEAN, ImageFrame(c, cursor) PROVE  Queued'
      <3> DEFINE r == Opened("image_copy", cursor)
                 asked == [r EXCEPT !.at = "asked", !.used = TRUE]
      <3>1. Sound(asked, TRUE, backend) /\ Sound(Over, FALSE, backend)
        BY OpenedSound, OverSound
      <3>2. CASE session.on \/ ~output
        <4>1. capture' = [capture EXCEPT ![c] = Over] /\ pending' = pending /\ capture[c].at = "none"
          BY <2>1, <3>2 DEF ImageFrame
        <4> HIDE DEF Over
        <4> QED BY <4>1, <3>1, <1>0, <1>1, Comes
      <3>3. CASE ~(session.on \/ ~output)
        <4>1. /\ capture' = [capture EXCEPT ![c] = asked] /\ pending' = pending \cup {c}
              /\ capture[c].at = "none"
          BY <2>1, <3>3 DEF ImageFrame
        <4> HIDE DEF asked
        <4> QED BY <4>1, <3>1, <1>0, <1>1, Comes
      <3> QED BY <3>2, <3>3
    <2>2. ASSUME NEW cursor \in BOOLEAN, NEW empty \in BOOLEAN, OpenScreencopy(c, cursor, empty)
          PROVE  Queued'
      <3> DEFINE r == IF empty THEN Over ELSE Opened("screencopy", cursor)
      <3>1. Sound(r, FALSE, backend)
        BY OpenedSound, OverSound
      <3>2. capture' = [capture EXCEPT ![c] = r] /\ pending' = pending /\ capture[c].at = "none"
        BY <2>2 DEF OpenScreencopy
      <3> HIDE DEF r
      <3> QED BY <3>1, <3>2, <1>0, <1>1, Comes
    <2>3. ASSUME NEW valid \in BOOLEAN, Copy(c, valid) PROVE  Queued'
      <3>0. CASE session.on
        <4> DEFINE r == [capture[c] EXCEPT !.refused = TRUE]
        <4>1. capture' = [capture EXCEPT ![c] = r] /\ pending' = pending /\ Alive(c)
          BY <2>3, <3>0, <1>0 DEF Copy, Refuse, Types
        <4>2. PICK q \in BOOLEAN : c \in pending <=> q
          OBVIOUS
        <4>3. Sound(capture[c], q, backend) /\ capture[c] \in FrameObject
          BY <4>1, <4>2, <1>0, Apart DEF Sounds, Sound, Alive
        <4>4. Sound(r, q, backend)
          BY <4>3, RefusedSound
        <4> HIDE DEF r
        <4> QED BY <4>1, <4>2, <4>4, <1>0, <1>1, OneChanges
      <3>1. CASE ~session.on /\ (capture[c].used \/ ~valid)
        <4>1. capture' = [capture EXCEPT ![c] = Left(c)] /\ pending' = pending /\ Alive(c)
          BY <2>3, <3>1 DEF Copy, ProtocolError
        <4> QED BY <4>1, <1>0, <1>1, Gone
      <3>2. CASE ~session.on /\ ~(capture[c].used \/ ~valid)
        <4> DEFINE r == [capture[c] EXCEPT !.at = "asked", !.used = TRUE,
                                           !.lent = (capture[c].lent \/ capture[c].kind = "screencopy")]
        <4>1. /\ capture' = [capture EXCEPT ![c] = r] /\ pending' = pending \cup {c} /\ Alive(c)
              /\ ~capture[c].used
          BY <2>3, <3>2, <1>0 DEF Copy, Enqueue, Types
        <4>2. capture[c] \in FrameObject /\ c \notin pending
          BY <4>1, <1>0, Apart DEF Sounds, Sound, Alive
        <4>3. Sound(r, TRUE, backend)
          <5>1. Sound(capture[c], FALSE, backend)
            BY <4>1, <4>2, <1>0 DEF Sounds, Sound
          <5> QED BY <5>1, <4>1, <4>2, EnqueuedSound
        <4>4. /\ pending' \subseteq Captures /\ (c \in pending' <=> TRUE)
              /\ \A d \in Captures \ {c} : d \in pending' <=> d \in pending
          BY <4>1, <1>0
        <4> HIDE DEF r
        <4> QED BY <4>1, <4>3, <4>4, <1>0, <1>1, OneChanges
      <3> QED BY <3>0, <3>1, <3>2
    <2>4. CASE Destroy(c)
      <3>1. capture' = [capture EXCEPT ![c] = Left(c)] /\ pending' = pending /\ Alive(c)
        BY <2>4 DEF Destroy
      <3> QED BY <3>1, <1>0, <1>1, Gone
    <2> QED BY <2>1, <2>2, <2>3, <2>4 DEF Client
  <1>4. Types'
    BY <1>0, <1>1, <1>2, <1>3, ClientTypes
  <1>5. ConfirmedIsShown'
    BY <1>1 DEF CaptureInv, ConfirmedIsShown
  <1> QED BY <1>3, <1>4, <1>5 DEF CaptureInv, Queued

-----------------------------------------------------------------------------
(* Frames *)

LEMMA SceneType == Scene \in {"lock", "desktop"}
  BY DEF Scene

\* The captures that a frame answers leave the queue with an answer.
LEMMA FulfillSound ==
  ASSUME Types, Sounds, NEW served \in SUBSET pending, NEW scene \in {"lock", "desktop"},
         NEW painted, NEW broken, Fulfill(served, scene, painted, broken), backend' = backend,
         \A c \in served : backend = "direct" => ((c \in painted) <=> capture[c].cursor)
  PROVE  Queued'
PROOF
  <1>1. /\ capture' = [c \in Captures |->
                         IF c \in served THEN Answer(capture[c], scene, c \in painted, c \in broken)
                         ELSE capture[c]]
        /\ pending' = pending \ served
    BY DEF Fulfill
  <1>2. ASSUME NEW c \in Captures PROVE Sound(capture'[c], c \in pending', backend')
    <2>0. Sound(capture[c], c \in pending, backend)
      BY DEF Sounds
    <2>1. CASE c \in served
      <3>1. Sound(capture[c], TRUE, backend)
        BY <2>0, <2>1 DEF Sound
      <3>2. capture[c] \in FrameObject
        BY <3>1 DEF Sound
      <3>3. backend = "direct" /\ capture[c].at # "gone" => (c \in painted) = capture[c].cursor
        BY <2>1, <3>2 DEF FrameObject
      <3>4. (c \in painted) \in BOOLEAN /\ (c \in broken) \in BOOLEAN
        OBVIOUS
      <3>5. Sound(Answer(capture[c], scene, c \in painted, c \in broken), FALSE, backend)
        BY <3>1, <3>3, <3>4, AnswerSound
      <3>6. capture'[c] = Answer(capture[c], scene, c \in painted, c \in broken)
        BY <1>1, <2>1
      <3> QED BY <3>5, <3>6, <2>1, <1>1 DEF Sound
    <2>2. CASE c \notin served
      BY <1>1, <2>0, <2>2 DEF Sound
    <2> QED BY <2>1, <2>2
  <1> QED BY <1>1, <1>2 DEF Queued, Sounds, Types

\* A frame that is shown confirms the lock that it shows.
LEMMA ShownConfirms ==
  ASSUME Types, Shown, Confirmed
  PROVE  /\ session' \in [on : BOOLEAN, confirm : BOOLEAN]
         /\ screen' \in [scene : {"off", "lock", "desktop"}, error : BOOLEAN]
         /\ ConfirmedIsShown'
PROOF
  <1>1. session' \in [on : BOOLEAN, confirm : BOOLEAN] /\ (session'.on <=> session.on)
    BY DEF Types, Confirmed
  <1>2. screen' \in [scene : {"off", "lock", "desktop"}, error : BOOLEAN]
    BY SceneType DEF Types, Shown, ErrorShown
  <1>3. ConfirmedIsShown'
    BY <1>1 DEF Shown, Scene, ConfirmedIsShown
  <1> QED BY <1>1, <1>2, <1>3

LEMMA FlushedType == Types => Flushed \in {NoClick} \cup [kind : Clicks, due : BOOLEAN]
  BY DEF Types, Flushed

LEMMA DrawKeeps ==
  ASSUME CaptureInv, Draw
  PROVE  CaptureInv'
PROOF
  <1>0. Types /\ Sounds /\ pending \subseteq Captures
    BY DEF CaptureInv, Types
  <1>1. ASSUME NEW broken \in SUBSET pending, NEW moving \in BOOLEAN, NestedFrame(moving, broken)
        PROVE  CaptureInv'
    <2>1. /\ Shown /\ Confirmed /\ Fulfill(pending, Scene, {}, broken) /\ backend = "nested"
          /\ click' = Flushed /\ UNCHANGED <<backend, running, output, config_error>>
          /\ redraw' = (moving \/ Flushed.kind = "pan")
      BY <1>1 DEF NestedFrame, Chained
    <2>2. Queued'
      BY <2>1, <1>0, SceneType, FulfillSound
    <2> QED
      BY <2>1, <2>2, <1>0, ShownConfirms, FlushedType DEF CaptureInv, Types, Queued
  <1>2. ASSUME NEW broken \in SUBSET pending, NEW made \in SUBSET BOOLEAN, NEW shows \in BOOLEAN,
               DirectFrame(made, broken, shows)
        PROVE  CaptureInv'
    <2>1. /\ (Shown /\ Confirmed) \/ UNCHANGED <<screen, session>>
          /\ backend = "direct"
          /\ click' = Flushed /\ UNCHANGED <<backend, running, output, config_error, redraw>>
      BY <1>2 DEF DirectFrame
    <2>2. Queued'
      <3>1. CASE session.on
        <4>1. capture' = capture /\ pending' = pending
          BY <1>2, <3>1 DEF DirectFrame
        <4> QED BY <4>1, <2>1, <1>0 DEF Queued, Sounds, Types
      <3>2. CASE ~session.on
        <4> DEFINE served == UNION {Matching(p) : p \in made}
                   painted == IF TRUE \in made THEN Matching(TRUE) ELSE {}
        <4>1. Fulfill(served, Scene, painted, broken)
          BY <1>2, <3>2 DEF DirectFrame
        <4>2. served \in SUBSET pending
          BY DEF Matching
        <4>3. ASSUME NEW c \in served PROVE (c \in painted) <=> capture[c].cursor
          <5>1. PICK p \in made : c \in pending /\ capture[c].cursor = p
            BY <2>1 DEF Matching
          <5>2. CASE p = TRUE
            BY <5>1, <5>2 DEF Matching
          <5>3. CASE p = FALSE
            BY <5>1, <5>3, <2>1 DEF Matching
          <5> QED BY <5>1, <5>2, <5>3
        <4> HIDE DEF served, painted
        <4> QED BY <4>1, <4>2, <4>3, <2>1, <1>0, SceneType, FulfillSound
      <3> QED BY <3>1, <3>2
    <2>3. /\ session' \in [on : BOOLEAN, confirm : BOOLEAN]
          /\ screen' \in [scene : {"off", "lock", "desktop"}, error : BOOLEAN]
          /\ ConfirmedIsShown'
      BY <2>1, <1>0, ShownConfirms DEF CaptureInv, Types, ConfirmedIsShown
    <2> QED BY <2>1, <2>2, <2>3, <1>0, FlushedType DEF CaptureInv, Types, Queued
  <1>3. ASSUME NEW answered \in BOOLEAN, NestedFailure(answered) PROVE CaptureInv'
    <2>1. /\ backend = "nested" /\ running' = FALSE /\ redraw' = FALSE /\ click' = Flushed
          /\ UNCHANGED <<backend, output, session, config_error, screen>>
          /\ IF answered THEN Fulfill(pending, Scene, {}, {}) ELSE UNCHANGED <<capture, pending>>
      BY <1>3 DEF NestedFailure
    <2>2. Queued'
      <3>1. CASE answered
        BY <3>1, <2>1, <1>0, SceneType, FulfillSound
      <3>2. CASE ~answered
        BY <3>2, <2>1, <1>0 DEF Queued, Sounds, Types
      <3> QED BY <3>1, <3>2
    <2> QED
      BY <2>1, <2>2, <1>0, FlushedType DEF CaptureInv, Types, Queued, ConfirmedIsShown
  <1> QED BY <1>1, <1>2, <1>3 DEF Draw

-----------------------------------------------------------------------------
(* The rest of the system *)

LEMMA OthersKeep ==
  ASSUME CaptureInv,
         \/ Lock \/ Unlock \/ Activity \/ Hotplug \/ ClickFallsDue
         \/ \E k \in Clicks : Click(k)
         \/ \E bad \in BOOLEAN : ConfigReloaded(bad)
  PROVE  CaptureInv'
PROOF
  <1>1. Types' /\ backend' = backend /\ capture' = capture /\ pending' = pending
    <2>0. Types /\ NoClick \in [kind : {"none"}, due : BOOLEAN]
      BY DEF CaptureInv, NoClick
    <2>1. CASE Lock \/ Unlock
      <3>0. redraw' \in BOOLEAN
        BY <2>0, <2>1 DEF Types, Lock, Unlock, Wake
      <3>1. session' \in [on : BOOLEAN, confirm : BOOLEAN]
        <4>1. \A on, confirm \in BOOLEAN :
                [on |-> on, confirm |-> confirm] \in [on : BOOLEAN, confirm : BOOLEAN]
          OBVIOUS
        <4>2. \E on, confirm \in BOOLEAN : session' = [on |-> on, confirm |-> confirm]
          BY <2>1 DEF Lock, Unlock
        <4> QED BY <4>1, <4>2
      <3>2. click' \in {NoClick} \cup [kind : Clicks, due : BOOLEAN]
        BY <2>0, <2>1 DEF Types, Lock, Unlock
      <3>3. UNCHANGED <<backend, running, output, config_error, screen, capture, pending>>
        BY <2>1 DEF Lock, Unlock
      <3> QED BY <2>0, <3>0, <3>1, <3>2, <3>3 DEF Types
    <2>2. CASE Activity \/ Hotplug
      BY <2>0, <2>2 DEF Types, Activity, Hotplug, Wake
    <2>3. CASE ClickFallsDue
      <3>1. click \in [kind : Clicks, due : BOOLEAN]
        BY <2>0, <2>3 DEF Types, ClickFallsDue
      <3>2. click' \in [kind : Clicks, due : BOOLEAN]
        BY <2>3, <3>1 DEF ClickFallsDue
      <3> QED BY <2>0, <2>3, <3>2 DEF Types, ClickFallsDue
    <2>4. ASSUME NEW k \in Clicks, Click(k)
          PROVE  Types' /\ backend' = backend /\ capture' = capture /\ pending' = pending
      <3>1. click' \in [kind : Clicks, due : BOOLEAN]
        BY <2>4 DEF Click
      <3> QED BY <2>0, <2>4, <3>1 DEF Types, Click, Wake
    <2>5. ASSUME NEW bad \in BOOLEAN, ConfigReloaded(bad)
          PROVE  Types' /\ backend' = backend /\ capture' = capture /\ pending' = pending
      BY <2>0, <2>5 DEF Types, ConfigReloaded, Wake
    <2> QED BY <2>1, <2>2, <2>3, <2>4, <2>5
  <1>2. Sounds'
    BY <1>1 DEF CaptureInv, Sounds
  <1>3. ConfirmedIsShown'
    BY DEF CaptureInv, ConfirmedIsShown, Lock, Unlock, Activity, Hotplug, ClickFallsDue, Click,
           ConfigReloaded
  <1> QED BY <1>1, <1>2, <1>3 DEF CaptureInv

LEMMA InitCapture == CaptureInit => CaptureInv
PROOF
  <1> SUFFICES ASSUME CaptureInit PROVE CaptureInv
    OBVIOUS
  <1>1. Types
    BY DEF CaptureInit, Types
  <1>2. Sounds
    BY DEF CaptureInit, Sounds, Sound, NoFrameObject
  <1> QED BY <1>1, <1>2 DEF CaptureInit, CaptureInv, ConfirmedIsShown

LEMMA CaptureKept == CaptureInv /\ [CaptureNext]_capture_vars => CaptureInv'
PROOF
  <1> SUFFICES ASSUME CaptureInv, [CaptureNext]_capture_vars PROVE CaptureInv'
    OBVIOUS
  <1>1. CASE UNCHANGED capture_vars
    BY <1>1 DEF capture_vars, CaptureInv, Types, Sounds, ConfirmedIsShown
  <1> QED BY <1>1, DrawKeeps, ClientKeeps, OthersKeep DEF CaptureNext

LEMMA CaptureInvariant == CaptureSpec => []CaptureInv
  BY InitCapture, CaptureKept, PTL DEF CaptureSpec

-----------------------------------------------------------------------------
(* What follows *)

\* Type correctness of frames and captures (screencopy.rs, image_copy_capture.rs).
THEOREM CaptureTypeCorrect == CaptureSpec => []CaptureTypeOK
PROOF
  <1>1. CaptureInv => CaptureTypeOK
    <2> SUFFICES ASSUME CaptureInv PROVE CaptureTypeOK
      OBVIOUS
    <2>1. CaptureType = NoFrameObject \cup FrameObject
      BY DEF CaptureType, NoFrameObject, FrameObject
    <2>2. ASSUME NEW c \in Captures
          PROVE  /\ capture[c] \in CaptureType
                 /\ c \in pending => capture[c].at \in {"asked", "gone"}
      <3>1. Sound(capture[c], c \in pending, backend)
        BY DEF CaptureInv, Sounds
      <3> QED BY <3>1, <2>1, Apart DEF Sound
    <2>3. capture \in [Captures -> CaptureType]
      BY <2>2 DEF CaptureInv, Types
    <2>4. pending \subseteq {c \in Captures : capture[c].at \in {"asked", "gone"}}
      BY <2>2 DEF CaptureInv, Types
    <2> QED BY <2>3, <2>4 DEF CaptureInv, Types, CaptureTypeOK
  <1> QED BY <1>1, CaptureInvariant, PTL

\* The buffer of a copy that was queued is back with its client once it no longer is,
\* also after the client has destroyed its frame object or a frame has failed.
THEOREM BuffersComeBack == CaptureSpec => []BufferComesBack
PROOF
  <1>1. CaptureInv => BufferComesBack
    BY Apart DEF CaptureInv, Sounds, Sound, BufferComesBack, HasFrame
  <1> QED BY <1>1, CaptureInvariant, PTL

\* A picture of the direct backend has the cursor exactly if its client asked for it.
THEOREM CursorsAsAsked == CaptureSpec => []CursorAsAsked
PROOF
  <1>1. CaptureInv => CursorAsAsked
    BY Apart DEF CaptureInv, Sounds, Sound, CursorAsAsked, HasFrame
  <1> QED BY <1>1, CaptureInvariant, PTL

\* A lock is confirmed only after its own scene has been shown.
THEOREM ConfirmedOnceShown == CaptureSpec => []ConfirmedIsShown
  BY CaptureInvariant, PTL DEF CaptureInv

\* What is captured or shown while the session is locked is never the desktop.
THEOREM LockHidesDesktop == CaptureSpec => LockedShowsLock
PROOF
  <1> DEFINE Hidden ==
        session.on =>
          /\ \A c \in Captures :
               (capture'[c].at \in {"asked", "gone"} /\ capture'[c].picture = "desktop") =>
                 (HasFrame(c) /\ capture[c].picture = "desktop")
          /\ screen' # screen => screen' = [scene |-> "lock", error |-> FALSE]
  <1>1. CaptureInv /\ [CaptureNext]_capture_vars => [Hidden]_capture_vars
    <2> SUFFICES ASSUME CaptureInv, CaptureNext, session.on PROVE Hidden
      OBVIOUS
    <2>1. screen' # screen => screen' = [scene |-> "lock", error |-> FALSE]
      BY DEF CaptureNext, Draw, NestedFrame, DirectFrame, NestedFailure, Client, ImageFrame,
             OpenScreencopy, Copy, Destroy, Lock, Unlock, Activity, Hotplug, ClickFallsDue, Click,
             ConfigReloaded, Shown, Scene, ErrorShown
    <2>2. ASSUME NEW c \in Captures, capture'[c].at \in {"asked", "gone"},
                 capture'[c].picture = "desktop"
          PROVE  HasFrame(c) /\ capture[c].picture = "desktop"
      <3>0. Sound(capture[c], c \in pending, backend)
        BY DEF CaptureInv, Sounds
      <3>1. CASE capture'[c] = capture[c]
        BY <2>2, <3>1 DEF HasFrame
      <3>2. ASSUME NEW d \in Captures, Client(d), capture'[c] # capture[c]
            PROVE  HasFrame(c) /\ capture[c].picture = "desktop"
        <4>1. d = c
          BY <3>2
          DEF CaptureInv, Types, Client, ImageFrame, OpenScreencopy, Copy, Destroy, ProtocolError, Enqueue, Refuse
        <4>2. CASE Destroy(c)
          <5>1. capture'[c] = Left(c) /\ Alive(c)
            BY <4>2 DEF Destroy, CaptureInv, Types
          <5> QED BY <5>1, <2>2, <3>0, Apart DEF Left, Over, Alive, HasFrame, Sound, FrameObject
        <4>3. ASSUME NEW cursor \in BOOLEAN, ImageFrame(c, cursor) PROVE FALSE
          <5>1. capture'[c] = Over
            BY <4>3 DEF ImageFrame, CaptureInv, Types
          <5> QED BY <5>1, <2>2 DEF Over
        <4>4. ASSUME NEW cursor \in BOOLEAN, NEW empty \in BOOLEAN,
                     OpenScreencopy(c, cursor, empty)
              PROVE  FALSE
          <5>1. capture'[c] = IF empty THEN Over ELSE Opened("screencopy", cursor)
            BY <4>4 DEF OpenScreencopy, CaptureInv, Types
          <5> QED BY <5>1, <2>2 DEF Over, Opened
        <4>5. ASSUME NEW valid \in BOOLEAN, Copy(c, valid)
              PROVE  HasFrame(c) /\ capture[c].picture = "desktop"
          <5>1. capture'[c] = [capture[c] EXCEPT !.refused = TRUE] /\ Alive(c)
            BY <4>5 DEF Copy, Refuse, CaptureInv, Types
          <5>2. capture[c] \in FrameObject
            BY <5>1, <3>0, Apart DEF Alive, Sound
          <5> QED BY <5>1, <5>2, <2>2 DEF FrameObject, Alive, HasFrame
        <4> QED BY <3>2, <4>1, <4>2, <4>3, <4>4, <4>5 DEF Client
      <3>3. ASSUME Draw, capture'[c] # capture[c]
            PROVE  HasFrame(c) /\ capture[c].picture = "desktop"
        <4>1. PICK broken : Fulfill(pending, "lock", {}, broken)
          BY <3>3 DEF Draw, NestedFrame, DirectFrame, NestedFailure, Scene
        <4>2. c \in pending /\ capture'[c] = Answer(capture[c], "lock", c \in {}, c \in broken)
          BY <4>1, <3>3 DEF Fulfill
        <4>3. capture[c] \in FrameObject /\ capture[c].at # "gone"
          BY <4>2, <3>0, <2>2 DEF Sound, Answer, Over
        <4>4. CASE c \in broken
          <5>1. capture'[c] = [capture[c] EXCEPT !.answers = capture[c].answers + 1, !.lent = FALSE]
            BY <4>2, <4>3, <4>4 DEF Answer, Told, FrameObject
          <5>2. capture'[c].picture = capture[c].picture
            BY <5>1, <4>3 DEF FrameObject
          <5> QED BY <5>2, <4>3, <2>2, Apart DEF HasFrame
        <4>5. CASE c \notin broken
          <5>1. capture'[c].picture = "lock"
            BY <4>2, <4>3, <4>5 DEF Answer, Told, FrameObject
          <5> QED BY <5>1, <2>2
        <4> QED BY <4>4, <4>5
      <3> QED
        BY <3>1, <3>2, <3>3
        DEF CaptureNext, Lock, Unlock, Activity, Hotplug, ClickFallsDue, Click, ConfigReloaded
    <2> QED BY <2>1, <2>2
  <1> QED BY <1>1, CaptureInvariant, PTL DEF CaptureSpec, LockedShowsLock

\* A frame object that has its picture is never queued nor answered again
\* (FrameData::used), however often a copy of it is refused while locked.
THEOREM OnePicture == CaptureSpec => PictureIsLast
PROOF
  <1> DEFINE Last ==
        \A c \in Captures :
          (HasFrame(c) /\ capture[c].picture # "none" /\ HasFrame(c)') =>
            capture'[c].answers = capture[c].answers /\ c \notin pending'
  <1>1. CaptureInv /\ [CaptureNext]_capture_vars => [Last]_capture_vars
    <2> SUFFICES ASSUME CaptureInv, CaptureNext, NEW c \in Captures, HasFrame(c),
                        capture[c].picture # "none", HasFrame(c)'
                 PROVE  capture'[c].answers = capture[c].answers /\ c \notin pending'
      OBVIOUS
    <2>0. capture[c] \in FrameObject /\ c \notin pending /\ capture[c].used /\ capture[c].at # "none"
      BY Apart DEF CaptureInv, Sounds, Sound, HasFrame
    <2>1. ASSUME NEW d \in Captures, Client(d)
          PROVE  capture'[c].answers = capture[c].answers /\ c \notin pending'
      <3>1. CASE d # c
        BY <2>0, <2>1, <3>1
        DEF CaptureInv, Types, Client, ImageFrame, OpenScreencopy, Copy, Destroy, ProtocolError,
            Enqueue, Refuse
      <3>2. CASE d = c
        <4>1. /\ capture'[c] = Left(c) \/ capture'[c] = [capture[c] EXCEPT !.refused = TRUE]
              /\ pending' = pending
          BY <2>0, <2>1, <3>2
          DEF CaptureInv, Types, Client, ImageFrame, OpenScreencopy, Copy, Destroy, ProtocolError,
              Refuse
        <4>2. CASE capture'[c] = Left(c)
          BY <4>2, <2>0 DEF Left, Over, HasFrame
        <4>3. CASE capture'[c] = [capture[c] EXCEPT !.refused = TRUE]
          BY <4>1, <4>3, <2>0 DEF FrameObject
        <4> QED BY <4>1, <4>2, <4>3
      <3> QED BY <3>1, <3>2
    <2>2. ASSUME Draw PROVE capture'[c] = capture[c] /\ c \notin pending'
      <3>1. ASSUME NEW served \in SUBSET pending, NEW scene, NEW painted, NEW broken,
                   Fulfill(served, scene, painted, broken)
            PROVE  capture'[c] = capture[c] /\ c \notin pending'
        BY <3>1, <2>0 DEF Fulfill
      <3>2. \A made : UNION {Matching(p) : p \in made} \in SUBSET pending
        BY DEF Matching
      <3> QED BY <2>0, <2>2, <3>1, <3>2 DEF Draw, NestedFrame, DirectFrame, NestedFailure
    <2> QED
      BY <2>0, <2>1, <2>2
      DEF CaptureNext, Lock, Unlock, Activity, Hotplug, ClickFallsDue, Click, ConfigReloaded
  <1> QED BY <1>1, CaptureInvariant, PTL DEF CaptureSpec, PictureIsLast

-----------------------------------------------------------------------------
(***************************************************************************)
(* A window on its way to the screen                                       *)
(*                                                                         *)
(* LayoutFollowsWorld needs the types of what is drawn and told, and nothing *)
(* more: every operation that changes the World, the view or the gesture   *)
(* syncs the layout by itself, and a frame changes no target.              *)
(***************************************************************************)

DeskState == [there : BOOLEAN, size : Nat \ {0}, shown : Presentations, zoom : Nat \ {0},
              focus : BOOLEAN]

\* A value on its way, and what is drawn of the window.
Travelling == [now : Int, target : Int]

DrawnState == [rect : Travelling, client : Travelling, ready : BOOLEAN]

GripState == [role : {"none", "edge", "follower"}, from : Int]

\* The fields of a window on its way to the screen.
MotionTypes ==
  /\ desk \in DeskState
  /\ view \in [output : BOOLEAN, locked : BOOLEAN]
  /\ drawn \in DrawnState
  /\ told \in [size : Int, shown : Presentations]
  /\ grip \in GripState

MotionInv == MotionTypes /\ LayoutFollowsWorld

\* Targets of a world d, and the presentation it has.
Follows(d, dr)  == dr.rect.target = ScreenSize(d) /\ dr.client.target = ClientSize(d)
LaidFor(d, v, g, dr, t) ==
  d.there /\ v.output =>
    /\ t.shown = d.shown
    /\ g = NoGrip /\ ~ v.locked /\ d.focus => Follows(d, dr)

\* The sizes a World asks for are numbers.
LEMMA SizeTypes ==
  ASSUME NEW d \in DeskState
  PROVE  ScreenSize(d) \in Int /\ ClientSize(d) \in Int
  <1>1. d.size \in Nat /\ d.zoom \in Nat /\ d.size * d.zoom \in Int
    BY DEF DeskState
  <1> QED  BY <1>1, MotionAssumption DEF ScreenSize, ClientSize

\* A sync of whatever is drawn aims it at the World, unless a gesture holds the
\* window, and tells the client its presentation if it is asked to, or if that has
\* not changed.
LEMMA SyncFollows ==
  ASSUME NEW d \in DeskState, NEW v, NEW g, NEW dr \in DrawnState,
         NEW t \in [size : Int, shown : Presentations], NEW sizes \in BOOLEAN,
         sizes \/ ~ (d.there /\ v.output) \/ t.shown = d.shown
  PROVE  LET laid == LaidOut(d, v, g, dr, t, sizes)
         IN  /\ laid.drawn \in DrawnState /\ laid.told \in [size : Int, shown : Presentations]
             /\ LaidFor(d, v, g, laid.drawn, laid.told)
  <1> DEFINE laid == LaidOut(d, v, g, dr, t, sizes)
             shown == IF sizes THEN d.shown ELSE t.shown
             rect == Aimed(dr.rect, ScreenSize(d))
             client == IF t.size = Unset THEN At(ClientSize(d))
                       ELSE [dr.client EXCEPT !.target = ClientSize(d)]
  <1>1. ScreenSize(d) \in Int /\ ClientSize(d) \in Int
    BY SizeTypes
  <1>2. /\ rect \in Travelling /\ rect.target = ScreenSize(d)
        /\ client \in Travelling /\ client.target = ClientSize(d)
    BY <1>1 DEF Aimed, At, Travelling, DrawnState
  <1>3. shown \in Presentations /\ (d.there /\ v.output => shown = d.shown)
    BY DEF DeskState
  <1>4. CASE ~ v.output \/ ~ d.there
    <2>1. laid = [drawn |-> dr, told |-> t]
      BY <1>4 DEF LaidOut
    <2> QED  BY <1>4, <2>1 DEF LaidFor
  <1>5. CASE v.output /\ d.there /\ g # NoGrip
    <2>1. laid = [drawn |-> dr, told |-> [t EXCEPT !.shown = shown]]
      BY <1>5 DEF LaidOut
    <2> HIDE DEF laid, shown
    <2> QED  BY <1>3, <1>5, <2>1 DEF LaidFor, laid
  <1>6. CASE v.output /\ d.there /\ g = NoGrip
    <2>1. laid = [drawn |-> [dr EXCEPT !.rect = rect, !.client = client],
                  told  |-> [size |-> IF t.size = Unset THEN ClientSize(d) ELSE t.size,
                             shown |-> shown]]
      BY <1>6 DEF LaidOut, DrawnState
    <2> HIDE DEF laid, rect, client, shown
    <2>2. laid.drawn.rect = rect /\ laid.drawn.client = client /\ laid.drawn \in DrawnState
      BY <1>2, <2>1 DEF DrawnState
    <2>3. laid.told \in [size : Int, shown : Presentations] /\ laid.told.shown = shown
      BY <1>1, <1>3, <2>1
    <2> QED  BY <1>2, <1>3, <1>6, <2>2, <2>3 DEF LaidFor, Follows, laid
  <1> QED  BY <1>4, <1>5, <1>6

\* A handler that ends in a sync.
LEMMA SyncedHandler ==
  ASSUME MotionTypes, LayoutFollowsWorld, NEW dr \in DrawnState, NEW sizes \in BOOLEAN,
         SyncLayout(dr, sizes),
         desk' \in DeskState, grip' \in GripState, view' \in [output : BOOLEAN, locked : BOOLEAN],
         sizes \/ (UNCHANGED <<desk, view>>)
               \/ (desk'.shown = desk.shown /\ desk'.there = desk.there /\ view'.output = view.output)
  PROVE  MotionInv'
  <1>1. told \in [size : Int, shown : Presentations]
    BY DEF MotionTypes
  <1>2. sizes \/ ~ (desk'.there /\ view'.output) \/ told.shown = desk'.shown
    BY DEF LayoutFollowsWorld
  <1>3. /\ drawn' \in DrawnState /\ told' \in [size : Int, shown : Presentations]
        /\ LaidFor(desk', view', grip', drawn', told')
    BY <1>1, <1>2, SyncFollows DEF SyncLayout
  <1> QED  BY <1>3 DEF MotionInv, MotionTypes, LayoutFollowsWorld, LaidFor, Follows

\* A frame advances what is drawn and changes no target; a zoom on the way is
\* followed by a sync.
LEMMA FrameFollows ==
  ASSUME MotionInv, NEW zoom \in Zooms, Frame(zoom)
  PROVE  MotionInv'
  <1> DEFINE laid == IF zoom = desk.zoom THEN [drawn |-> drawn, told |-> told]
                     ELSE LaidOut(desk', view', grip, drawn, told, FALSE)
  <1>1. /\ desk' = [desk EXCEPT !.zoom = zoom] /\ UNCHANGED <<view, grip>>
        /\ \/ /\ drawn' = Advanced(laid.drawn)
              /\ told' = [laid.told EXCEPT !.size = drawn'.client.now]
           \/ drawn' = laid.drawn /\ told' = laid.told
    BY DEF Frame
  <1>2. desk' \in DeskState /\ desk'.there = desk.there /\ desk'.shown = desk.shown
        /\ (zoom = desk.zoom => desk' = desk)
    BY <1>1, MotionAssumption DEF MotionInv, MotionTypes, DeskState
  <1>3. /\ laid.drawn \in DrawnState /\ laid.told \in [size : Int, shown : Presentations]
        /\ LaidFor(desk', view', grip, laid.drawn, laid.told)
    <2>1. CASE zoom = desk.zoom
      BY <1>1, <1>2, <2>1 DEF MotionInv, MotionTypes, LayoutFollowsWorld, LaidFor, Follows
    <2>2. CASE zoom # desk.zoom
      <3>1. ~ (desk'.there /\ view'.output) \/ told.shown = desk'.shown
        BY <1>1, <1>2 DEF MotionInv, LayoutFollowsWorld
      <3>2. laid = LaidOut(desk', view', grip, drawn, told, FALSE)
        BY <2>2
      <3> HIDE DEF laid
      <3>3. drawn \in DrawnState /\ told \in [size : Int, shown : Presentations]
        BY DEF MotionInv, MotionTypes
      <3> QED  BY <1>2, <3>1, <3>2, <3>3, SyncFollows
    <2> QED  BY <2>1, <2>2
  <1> HIDE DEF laid
  <1>4. /\ Advanced(laid.drawn) \in DrawnState
        /\ Advanced(laid.drawn).rect.target = laid.drawn.rect.target
        /\ Advanced(laid.drawn).client.target = laid.drawn.client.target
    <2>1. ASSUME NEW a \in Travelling
          PROVE  Advance(a) \in Travelling /\ Advance(a).target = a.target
      BY DEF Advance, Travelling
    <2> HIDE DEF Travelling
    <2> QED  BY <1>3, <2>1 DEF Advanced, DrawnState
  <1>5. /\ drawn' \in DrawnState
        /\ drawn'.rect.target = laid.drawn.rect.target
        /\ drawn'.client.target = laid.drawn.client.target
    BY <1>1, <1>3, <1>4
  <1>6. told' \in [size : Int, shown : Presentations] /\ told'.shown = laid.told.shown
    <2>1. drawn'.client.now \in Int
      BY <1>5 DEF DrawnState, Travelling
    <2> QED  BY <1>1, <1>3, <2>1
  <1> QED  BY <1>1, <1>2, <1>3, <1>5, <1>6
           DEF MotionInv, MotionTypes, LayoutFollowsWorld, LaidFor, Follows

\* The edge of a window that is dragged, and the lock, leave the World alone and
\* the layout to the sync that ends them.
LEMMA GestureFollows ==
  ASSUME MotionInv,
         \/ \E role \in {"edge", "follower"} : BeginWindowResize(role)
         \/ \E width \in 1 .. Area : UpdateWindowResize(width)
         \/ LockSession
  PROVE  MotionInv'
  <1>0. /\ desk \in DeskState /\ view \in [output : BOOLEAN, locked : BOOLEAN]
        /\ drawn \in DrawnState /\ told \in [size : Int, shown : Presentations]
        /\ grip \in GripState /\ LayoutFollowsWorld
    BY DEF MotionInv, MotionTypes
  <1>1. ASSUME NEW role \in {"edge", "follower"}, BeginWindowResize(role) PROVE MotionInv'
    <2>1. grip' # NoGrip /\ UNCHANGED <<desk, view, drawn, told>>
      BY <1>1 DEF BeginWindowResize, NoGrip
    <2>2. grip' \in GripState
      BY <1>0, <1>1 DEF BeginWindowResize, GripState, DrawnState, Travelling
    <2> QED  BY <1>0, <2>1, <2>2 DEF MotionInv, MotionTypes, LayoutFollowsWorld
  <1>2. ASSUME NEW width \in 1 .. Area, UpdateWindowResize(width), grip.role = "edge"
        PROVE  MotionInv'
    <2>1. /\ grip # NoGrip /\ UNCHANGED <<desk, view, grip>>
          /\ drawn' = [drawn EXCEPT !.rect = At(width), !.client = At(width)]
          /\ told' = [told EXCEPT !.size = width]
      BY <1>2 DEF UpdateWindowResize
    <2>2. At(width) \in Travelling /\ width \in Int
      BY MotionAssumption DEF At, Travelling
    <2>3. drawn' \in DrawnState
      BY <1>0, <2>1, <2>2 DEF DrawnState
    <2>4. told' \in [size : Int, shown : Presentations] /\ told'.shown = told.shown
      BY <1>0, <2>1, <2>2
    <2> QED  BY <1>0, <2>1, <2>3, <2>4 DEF MotionInv, MotionTypes, LayoutFollowsWorld
  <1>3. ASSUME NEW width \in 1 .. Area, UpdateWindowResize(width), grip.role # "edge"
        PROVE  MotionInv'
    <2>1. /\ grip # NoGrip /\ UNCHANGED <<desk, view, grip, told>>
          /\ drawn' = [drawn EXCEPT !.rect = At(grip.from)]
      BY <1>3 DEF UpdateWindowResize
    <2>2. At(grip.from) \in Travelling
      BY <1>0 DEF At, Travelling, GripState
    <2>3. drawn' \in DrawnState
      BY <1>0, <2>1, <2>2 DEF DrawnState
    <2> QED  BY <1>0, <2>1, <2>3 DEF MotionInv, MotionTypes, LayoutFollowsWorld
  <1>4. ASSUME LockSession PROVE MotionInv'
    <2>1. /\ view' = [view EXCEPT !.locked = TRUE] /\ UNCHANGED <<desk, drawn, told>>
      BY <1>4 DEF LockSession
    <2>2. view' \in [output : BOOLEAN, locked : BOOLEAN] /\ view'.locked /\ view'.output = view.output
      BY <1>0, <2>1
    <2>3. grip' \in GripState
      BY <1>4 DEF LockSession, NoGrip, GripState, Unset
    <2> QED  BY <1>0, <2>1, <2>2, <2>3 DEF MotionInv, MotionTypes, LayoutFollowsWorld
  <1> QED  BY <1>1, <1>2, <1>3, <1>4

\* Every other operation ends in a sync of its own.
LEMMA OperationFollows ==
  ASSUME MotionInv, MotionNext,
         ~ (\E role \in {"edge", "follower"} : BeginWindowResize(role)),
         ~ (\E width \in 1 .. Area : UpdateWindowResize(width)), ~ LockSession, ~ FrameStep
  PROVE  MotionInv'
  <1>0. /\ desk \in DeskState /\ view \in [output : BOOLEAN, locked : BOOLEAN]
        /\ drawn \in DrawnState /\ told \in [size : Int, shown : Presentations]
        /\ grip \in GripState /\ NoGrip \in GripState /\ LayoutFollowsWorld /\ MotionTypes
    BY DEF MotionInv, MotionTypes, NoGrip, GripState, Unset
  <1>1. /\ [drawn EXCEPT !.ready = TRUE] \in DrawnState
        /\ [drawn EXCEPT !.rect = NoRect] \in DrawnState
    <2>1. NoRect \in Travelling
      BY DEF NoRect, At, Travelling, Unset
    <2> QED  BY <1>0, <2>1 DEF DrawnState
  <1>2. CASE AddToplevel
    <2>1. desk' \in DeskState
      BY <1>0, <1>2 DEF AddToplevel, DeskState
    <2>2. SyncLayout(drawn, TRUE) /\ UNCHANGED <<view, grip>>
      BY <1>2 DEF AddToplevel
    <2> QED  BY <1>0, <2>1, <2>2, SyncedHandler
  <1>3. CASE PresentToplevel
    <2>1. desk' \in DeskState /\ desk'.shown = desk.shown /\ desk'.there = desk.there
      BY <1>0, <1>3 DEF PresentToplevel, DeskState
    <2>2. SyncLayout([drawn EXCEPT !.ready = TRUE], FALSE) /\ UNCHANGED <<view, grip>>
      BY <1>3 DEF PresentToplevel
    <2> QED  BY <1>0, <1>1, <2>1, <2>2, SyncedHandler
  <1>4. ASSUME NEW size \in Sizes, ResizeWindow(size) \/ ToggleWindowSize(size)
        PROVE  MotionInv'
    <2>1. desk' = [desk EXCEPT !.size = size] /\ SyncLayout(drawn, TRUE) /\ UNCHANGED <<view, grip>>
      BY <1>4 DEF ResizeWindow, ToggleWindowSize
    <2>2. desk' \in DeskState
      BY <1>0, <2>1, MotionAssumption DEF DeskState
    <2> QED  BY <1>0, <2>1, <2>2, SyncedHandler
  <1>5. ASSUME NEW size \in Sizes, FinishWindowResize(size)
        PROVE  MotionInv'
    <2>1. desk' \in DeskState
      BY <1>0, <1>5, MotionAssumption DEF FinishWindowResize, DeskState
    <2>2. grip' \in GripState /\ UNCHANGED view
      BY <1>0, <1>5 DEF FinishWindowResize
    <2>3. SyncLayout(IF grip.role = "edge" THEN [drawn EXCEPT !.rect = NoRect] ELSE drawn, TRUE)
      BY <1>5 DEF FinishWindowResize
    <2> QED  BY <1>0, <1>1, <2>1, <2>2, <2>3, SyncedHandler
  <1>6. ASSUME NEW shown \in Presentations \ {"Normal"}, TogglePresentation(shown)
        PROVE  MotionInv'
    <2>1. desk' \in DeskState
      BY <1>0, <1>6 DEF TogglePresentation, DeskState, Presentations
    <2>2. SyncLayout(drawn, TRUE) /\ UNCHANGED <<view, grip>>
      BY <1>6 DEF TogglePresentation
    <2> QED  BY <1>0, <2>1, <2>2, SyncedHandler
  <1>7. ASSUME NEW zoom \in Zooms, CameraZoom(zoom)
        PROVE  MotionInv'
    <2>1. desk' \in DeskState /\ desk'.shown = desk.shown /\ desk'.there = desk.there
      BY <1>0, <1>7, MotionAssumption DEF CameraZoom, DeskState
    <2>2. SyncLayout(drawn, FALSE) /\ UNCHANGED <<view, grip>>
      BY <1>7 DEF CameraZoom
    <2> QED  BY <1>0, <2>1, <2>2, SyncedHandler
  <1>8. ASSUME NEW focus \in BOOLEAN, NEW sizes \in BOOLEAN, OtherOperation(focus, sizes)
        PROVE  MotionInv'
    <2>1. desk' \in DeskState /\ desk'.shown = desk.shown /\ desk'.there = desk.there
      BY <1>0, <1>8 DEF OtherOperation, DeskState
    <2>2. SyncLayout(drawn, sizes) /\ UNCHANGED <<view, grip>>
      BY <1>8 DEF OtherOperation
    <2> QED  BY <1>0, <2>1, <2>2, SyncedHandler
  <1>9. CASE ResetPresentation
    <2>1. SyncLayout([drawn EXCEPT !.rect = NoRect], FALSE) /\ UNCHANGED <<desk, view, grip>>
      BY <1>9 DEF ResetPresentation
    <2> QED  BY <1>0, <1>1, <2>1, SyncedHandler
  <1>10. CASE SetOutputSize
    <2>1. view' \in [output : BOOLEAN, locked : BOOLEAN]
      BY <1>0, <1>10 DEF SetOutputSize
    <2>2. SyncLayout(drawn, TRUE) /\ UNCHANGED <<desk, grip>>
      BY <1>10 DEF SetOutputSize
    <2> QED  BY <1>0, <2>1, <2>2, SyncedHandler
  <1>11. CASE UnlockSession
    <2>1. /\ view' \in [output : BOOLEAN, locked : BOOLEAN] /\ view'.output = view.output
          /\ UNCHANGED <<desk, grip>>
      BY <1>0, <1>11 DEF UnlockSession
    <2>2. CASE desk.focus
      <3>1. SyncLayout(drawn, FALSE)
        BY <1>11, <2>2 DEF UnlockSession
      <3> QED  BY <1>0, <2>1, <3>1, SyncedHandler
    <2>3. CASE ~ desk.focus
      <3>1. UNCHANGED <<drawn, told>>
        BY <1>11, <2>3 DEF UnlockSession
      <3> QED  BY <1>0, <2>1, <2>3, <3>1 DEF MotionInv, MotionTypes, LayoutFollowsWorld
    <2> QED  BY <2>2, <2>3
  <1> QED  BY <1>2, <1>3, <1>4, <1>5, <1>6, <1>7, <1>8, <1>9, <1>10, <1>11 DEF MotionNext

\* Whatever operation changed a window last, outside a gesture and the lock what is
\* drawn heads for where the World has it, and its client knows how it is shown.
THEOREM LayoutFollows == MotionSpec => []LayoutFollowsWorld
  <1>1. ASSUME MotionInit PROVE MotionInv
    <2>1. desk \in DeskState /\ desk.there = FALSE
      BY <1>1, MotionAssumption DEF MotionInit, DeskState, Presentations
    <2> QED  BY <1>1, <2>1 DEF MotionInit, MotionInv, MotionTypes, LayoutFollowsWorld, DrawnState,
                               NoRect, At, Travelling, Unset, GripState, NoGrip, Presentations
  <1>2. ASSUME MotionInv, [MotionNext]_motion_vars PROVE MotionInv'
    <2>1. CASE UNCHANGED motion_vars
      BY <1>2, <2>1 DEF motion_vars, MotionInv, MotionTypes, LayoutFollowsWorld, ScreenSize, ClientSize
    <2>2. CASE MotionNext
      BY <1>2, <2>2, FrameFollows, GestureFollows, OperationFollows DEF FrameStep
    <2> QED  BY <1>2, <2>1, <2>2
  <1>3. MotionInv => LayoutFollowsWorld
    BY DEF MotionInv
  <1> QED  BY <1>1, <1>2, <1>3, PTL DEF MotionSpec
===============================================================================
