-------------------------- MODULE InstancesProperties --------------------------
(***************************************************************************)
(* What processes may rely on that start, quit and crash in one runtime    *)
(* directory.                                                              *)
(***************************************************************************)
EXTENDS Instances

\* The variables hold what their types allow.
InstancesTypeOK ==
  /\ lock \in [Names -> Processes \cup {None}]
  /\ proc \in [Processes -> [at : {"off"} \cup Starting \cup Serving \cup Ended,
                             name : Names \cup {None}]]
  /\ socket \in [Names -> Processes \cup {None, Stray}]

\* A process that has announced its IPC socket is the one its clients reach
\* (ipc_socket_path, MIO_SOCKET): nobody who starts, quits or takes over a dead
\* process's socket removes the path of a live one.
ReadyReachable ==
  \A p \in Processes : proc[p].at = "ready" => socket[proc[p].name] = p

\* Only a file that is no socket keeps Mio from starting (bind_ipc_listener): the
\* socket of a process that has crashed at any moment does not.
RefusedOnlyByFile ==
  \A p \in Processes : proc[p].at = "refused" => socket[proc[p].name] = Stray

\* Mio never removes what it has not made ("refusing to replace non-socket path").
FileKept == [][\A n \in Names : socket[n] = Stray => socket'[n] = Stray]_instance_vars
=============================================================================
