------------------------------- MODULE Instances -------------------------------
(***************************************************************************)
(* How Mio processes share a runtime directory (main.rs, ipc.rs): each     *)
(* takes a Wayland display name, binds the IPC socket of that name, takes  *)
(* over the socket a dead process has left, and removes its own when it    *)
(* quits.                                                                  *)
(*                                                                         *)
(* Every system call on the directory is a step: several processes start,  *)
(* quit and crash at once.                                                 *)
(***************************************************************************)
EXTENDS Naturals

CONSTANTS
  Processes,  \* processes that are ever started
  Names,      \* Wayland display names
  None        \* nobody, no file

\* The path of a name is in use by something that is no socket.
Stray == "stray"

ASSUME InstancesAssumption ==
  /\ Names \subseteq Nat /\ None \notin Names
  /\ None \notin Processes /\ Stray \notin Processes \cup {None}

VARIABLES
  lock,    \* who holds the lock file of a display name
  proc,    \* where a process is, and its display name (socket_name)
  socket   \* what is at the IPC path of a name: the process whose socket it is,
           \* dead or alive, a file that is not a socket, or nothing

instance_vars == <<lock, proc, socket>>

Starting == {"named", "connecting", "inspecting", "removing", "rebinding", "bound"}
Serving  == {"ready", "cleaning", "leaving"}
Ended    == {"done", "refused", "crashed"}

\* It has a socket that it listens on.
Listening(p) == proc[p].at \in {"bound", "ready", "cleaning", "leaving"}

InstancesInit ==
  /\ lock = [n \in Names |-> None]
  /\ proc = [p \in Processes |-> [at |-> "off", name |-> None]]
  /\ socket = [n \in Names |-> None]

Goes(p, from, to) == proc[p].at = from /\ proc' = [proc EXCEPT ![p].at = to]

\* The process ends: the kernel closes its sockets and drops its lock.
Ends(p, how) ==
  /\ proc' = [proc EXCEPT ![p].at = how]
  /\ lock' = [lock EXCEPT ![proc[p].name] = None]
  /\ UNCHANGED socket

-----------------------------------------------------------------------------
(* Starting *)

\* The first display name that nobody has locked.
TakeName(p) ==
  \E n \in Names :
    /\ proc[p].at = "off"
    /\ lock[n] = None /\ \A m \in Names : m < n => lock[m] # None
    /\ lock' = [lock EXCEPT ![n] = p]
    /\ proc' = [proc EXCEPT ![p] = [at |-> "named", name |-> n]]
    /\ UNCHANGED socket

\* UnixListener::bind creates the socket, or finds the path in use.
Bind(p, from, taken) ==
  /\ proc[p].at = from
  /\ LET n == proc[p].name
     IN \/ /\ socket[n] = None
           /\ socket' = [socket EXCEPT ![n] = p]
           /\ Goes(p, from, "bound") /\ UNCHANGED lock
        \/ socket[n] # None /\ taken

FirstBind(p) == Bind(p, "named", Goes(p, "named", "connecting") /\ UNCHANGED <<lock, socket>>)

\* Mutant: an address in use is given up, whoever has left it there.
ConnectOnce(p) ==
  /\ proc[p].at = "connecting"
  /\ Ends(p, "refused")

\* Somebody answers: another instance has the path.  A refused connection means
\* a socket without a process, a file, or nothing any more.
Connect(p) ==
  /\ proc[p].at = "connecting"
  /\ LET owner == socket[proc[p].name]
     IN IF owner \in Processes /\ Listening(owner)
        THEN Ends(p, "refused")
        ELSE Goes(p, "connecting", "inspecting") /\ UNCHANGED <<lock, socket>>

\* Only a socket is replaced.
Inspect(p) ==
  /\ proc[p].at = "inspecting"
  /\ IF socket[proc[p].name] \in Processes
     THEN Goes(p, "inspecting", "removing") /\ UNCHANGED <<lock, socket>>
     ELSE Ends(p, "refused")

RemoveSocket(p) ==
  /\ proc[p].at = "removing"
  /\ IF socket[proc[p].name] = None
     THEN Ends(p, "refused")
     ELSE /\ Goes(p, "removing", "rebinding")
          /\ socket' = [socket EXCEPT ![proc[p].name] = None]
          /\ UNCHANGED lock

SecondBind(p) == Bind(p, "rebinding", Ends(p, "refused"))

\* The path is made private; a path that is gone ends the start.
Secure(p) ==
  /\ proc[p].at = "bound"
  /\ IF socket[proc[p].name] = None
     THEN Ends(p, "refused")
     ELSE Goes(p, "bound", "ready") /\ UNCHANGED <<lock, socket>>

-----------------------------------------------------------------------------
(* Ending *)

\* quit over IPC, a signal, the host window, or a failed frame: the loop returns.
Quit(p) == Goes(p, "ready", "cleaning") /\ UNCHANGED <<lock, socket>>

\* Mutant: the display name is given back before the path is removed.
CleanupUnlocked(p) ==
  /\ \/ /\ proc[p].at = "cleaning" /\ lock[proc[p].name] = p
        /\ lock' = [lock EXCEPT ![proc[p].name] = None]
        /\ UNCHANGED <<proc, socket>>
     \/ /\ Goes(p, "cleaning", "leaving") /\ lock[proc[p].name] # p
        /\ socket' = [socket EXCEPT ![proc[p].name] = None]
        /\ UNCHANGED lock

\* Whatever is at the path is removed.
Cleanup(p) ==
  /\ Goes(p, "cleaning", "leaving")
  /\ socket' = [socket EXCEPT ![proc[p].name] = None]
  /\ UNCHANGED lock

Exit(p) == proc[p].at = "leaving" /\ Ends(p, "done")

\* A kill or a power failure at any moment leaves the socket behind.
Crash(p) == proc[p].at \in Starting \cup Serving /\ Ends(p, "crashed")

\* Somebody puts a file at a path that is free.
PutFile(n) ==
  /\ socket[n] = None
  /\ socket' = [socket EXCEPT ![n] = Stray]
  /\ UNCHANGED <<lock, proc>>

-----------------------------------------------------------------------------
StartStep(p) ==
  FirstBind(p) \/ Connect(p) \/ Inspect(p) \/ RemoveSocket(p) \/ SecondBind(p) \/ Secure(p)

EndStep(p) == Cleanup(p) \/ Exit(p)

InstancesNext ==
  \/ \E p \in Processes : TakeName(p) \/ StartStep(p) \/ EndStep(p) \/ Quit(p) \/ Crash(p)
  \/ \E n \in Names : PutFile(n)

InstancesSpec == InstancesInit /\ [][InstancesNext]_instance_vars
=============================================================================
