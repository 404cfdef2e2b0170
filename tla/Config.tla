-------------------------------- MODULE Config --------------------------------
(***************************************************************************)
(* The configuration (config.rs): files that include each other, loaded at *)
(* the start and again on demand, while somebody edits them; and the       *)
(* commands that are run once, at the start (main.rs, state.rs).           *)
(*                                                                         *)
(* A file is a sequence of nodes.  What a node says is kept only as far as *)
(* loading depends on it: an include, a key binding (two of a chord are an *)
(* error), a startup command, a value that is valid or not (validate), a   *)
(* node that does not parse.                                               *)
(***************************************************************************)
EXTENDS Naturals, Sequences, FiniteSets, SequencesExt

CONSTANTS
  Paths,     \* the files
  Main,      \* the configuration file
  Contents,  \* what a file may hold: Missing, Broken, or a sequence of nodes
  Missing,   \* there is no such file
  Broken,    \* unreadable, or not KDL
  Rejected,  \* a load that has failed
  MaxLoads   \* bound: loads that are tried

\* Values that validate accepts are below this one.
FirstInvalid == 2

\* The nodes of a file, and those that are left when it is loaded.
LoadedNode == [kind : {"bind", "spawn", "value", "bad"}, arg : Nat]

FileNode == LoadedNode \cup [kind : {"include"}, path : Paths]

ASSUME ConfigAssumption ==
  /\ IsFiniteSet(Paths) /\ Main \in Paths
  /\ \A content \in Contents \ {Missing, Broken} : content \in Seq(FileNode)
  /\ Rejected \notin Seq(LoadedNode)

VARIABLES
  disk,      \* the files
  config,    \* the configuration in force: bindings, startup commands, a value
  error,     \* config_error: the last load has failed
  startup,   \* pending_startup_commands, those that have been run, whether there
             \* is an Output
  loads

config_vars == <<disk, config, error, startup, loads>>

Default == [bindings |-> {}, commands |-> <<>>, value |-> 0]

-----------------------------------------------------------------------------
(* Loading *)

\* An included file that does not exist is left out; one that is being loaded
\* already is a cycle.
Included(p, stack) == p \notin stack

\* load_config_nodes: the nodes of a file with those of the files it includes in
\* their place, depth first; the stack has the files that are being loaded.
LoadConfigNodes[stack \in SUBSET Paths] ==
  [p \in Paths \ stack |->
     IF disk[p] = Broken THEN Rejected
     ELSE LET Expand(node) ==
                IF node.kind # "include" THEN <<node>>
                ELSE IF ~Included(node.path, stack \cup {p}) THEN Rejected
                ELSE IF disk[node.path] = Missing THEN <<>>
                ELSE LoadConfigNodes[stack \cup {p}][node.path]
              parts == [i \in DOMAIN disk[p] |-> Expand(disk[p][i])]
          IN IF \E i \in DOMAIN parts : parts[i] = Rejected THEN Rejected
             ELSE FlattenSeq(parts)]

\* No chord is bound twice, wherever the bindings come from.
Distinct(nodes) ==
  \A i, j \in DOMAIN nodes :
    (nodes[i].kind = "bind" /\ nodes[j].kind = "bind" /\ nodes[i].arg = nodes[j].arg) => i = j

Args(nodes, kind) ==
  LET args[i \in 0..Len(nodes)] ==
        IF i = 0 THEN <<>>
        ELSE IF nodes[i].kind = kind THEN Append(args[i - 1], nodes[i].arg)
        ELSE args[i - 1]
  IN args[Len(nodes)]

\* parse_nodes, validate: the whole is accepted or rejected; of values the last
\* one counts, bindings of the user replace the built-in ones, commands add up.
ParseNodes(nodes) ==
  LET values == <<Default.value>> \o Args(nodes, "value")
      new == [bindings |-> ToSet(Args(nodes, "bind")), commands |-> Args(nodes, "spawn"),
              value |-> Last(values)]
  IN IF /\ \A i \in DOMAIN nodes : nodes[i].kind # "bad"
        /\ Distinct(nodes) /\ new.value < FirstInvalid
     THEN new ELSE Rejected

\* parse_file.
ParseFile ==
  LET nodes == LoadConfigNodes[{}][Main]
  IN IF nodes = Rejected THEN Rejected ELSE ParseNodes(nodes)

-----------------------------------------------------------------------------
(* Startup commands *)

\* launch_pending_startup_commands_if_output_ready.
Launched(s) == IF s.output THEN [s EXCEPT !.queued = <<>>, !.run = @ \o s.queued] ELSE s

\* queue_startup_command, one after the other.
QueueStartup(s, commands) ==
  LET queue[i \in 0..Len(commands)] ==
        IF i = 0 THEN s
        ELSE Launched([queue[i - 1] EXCEPT !.queued = Append(@, commands[i])])
  IN queue[Len(commands)]

-----------------------------------------------------------------------------
\* main: load_or_default -- an explicit path must exist, a default one need not
\* -- and, once the sockets are there, the startup commands.
Load(explicit) ==
  LET loaded == IF disk[Main] = Missing
                THEN IF explicit THEN Rejected ELSE Default
                ELSE ParseFile
  IN /\ error = "unread"
     /\ config' = (IF loaded = Rejected THEN Default ELSE loaded)
     /\ error' = (IF loaded = Rejected THEN "shown" ELSE "none")
     /\ startup' = QueueStartup(startup, config'.commands)
     /\ loads' = loads + 1
     /\ UNCHANGED disk

\* Mutant: startup commands of a new configuration are run as well.
RequeuedStartup == startup' = QueueStartup(startup, config'.commands)

KeptStartup == UNCHANGED startup

\* Mutant: a load that fails leaves the built-in configuration.
FallenBack(loaded) == IF loaded = Rejected THEN Default ELSE loaded

Replaced(loaded) == IF loaded = Rejected THEN config ELSE loaded

\* ConfigManager::reload, reload_config.  That the World may refuse the new viewport is
\* logged and changes nothing here: the configuration counts as a whole.
Reload ==
  LET loaded == IF disk[Main] = Missing THEN Rejected ELSE ParseFile
  IN /\ error # "unread" /\ loads < MaxLoads
     /\ config' = Replaced(loaded)
     /\ error' = (IF loaded = Rejected THEN "shown" ELSE "none")
     /\ KeptStartup
     /\ loads' = loads + 1
     /\ UNCHANGED disk

\* connect_output, and the Output that init finds: launch what waits for it.
ConnectOutput ==
  /\ ~startup.output
  /\ startup' = Launched([startup EXCEPT !.output = TRUE])
  /\ UNCHANGED <<disk, config, error, loads>>

DisconnectOutput ==
  /\ startup.output /\ error # "unread"
  /\ startup' = [startup EXCEPT !.output = FALSE]
  /\ UNCHANGED <<disk, config, error, loads>>

\* Somebody edits a file.
Edit(p) ==
  \E content \in Contents \ {disk[p]} :
    /\ loads < MaxLoads
    /\ disk' = [disk EXCEPT ![p] = content]
    /\ UNCHANGED <<config, error, startup, loads>>

ConfigInit ==
  /\ disk \in [Paths -> Contents]
  /\ config = Default /\ error = "unread"
  /\ startup = [queued |-> <<>>, run |-> <<>>, output |-> FALSE]
  /\ loads = 0

ConfigNext ==
  \/ \E explicit \in BOOLEAN : Load(explicit)
  \/ Reload \/ ConnectOutput \/ DisconnectOutput
  \/ \E p \in Paths : Edit(p)

ConfigSpec == ConfigInit /\ [][ConfigNext]_config_vars
=============================================================================
