---------------------------- MODULE ConfigProperties ----------------------------
(***************************************************************************)
(* What somebody who edits the configuration may rely on.                  *)
(***************************************************************************)
EXTENDS Config

\* The files with all includes replaced by the files they name, once: those that
\* are missing by nothing, those that are broken by a node that does not parse.
Unfolded(nodes) ==
  LET text(p) == IF disk[p] = Missing THEN <<>>
                 ELSE IF disk[p] = Broken THEN <<[kind |-> "bad", arg |-> 0]>>
                 ELSE disk[p]
  IN FlattenSeq([i \in DOMAIN nodes |->
                   IF nodes[i].kind = "include" THEN text(nodes[i].path) ELSE <<nodes[i]>>])

\* What the files say, read as one text: replacing includes comes to an end after
\* as many rounds as there are files, unless they go in a circle.
Meaning ==
  LET rounds[n \in 0..Cardinality(Paths)] ==
        IF n = 0 THEN <<[kind |-> "include", path |-> Main]>> ELSE Unfolded(rounds[n - 1])
      nodes == rounds[Cardinality(Paths)]
  IN IF \E i \in DOMAIN nodes : nodes[i].kind = "include" THEN Rejected ELSE ParseNodes(nodes)

\* A new configuration replaces the one in force as a whole and only when all of
\* it is good, and the warning is there exactly after a load that failed
\* (requirements FR-CONF-006, FR-CONF-007).
LastGoodCounts ==
  [][loads' # loads =>
       \/ config' = Meaning /\ error' = "none"
       \/ config' = Default /\ error' = "none" /\ loads = 0 /\ disk[Main] = Missing
       \/ config' = config /\ error' = "shown" /\ (disk[Main] = Missing \/ Meaning = Rejected)]_config_vars

\* The startup commands of the configuration that Mio has started with, and no
\* others, are run in their order, each once and as soon as there is an Output,
\* through reloads and reconnections (requirements FR-CONF-008).
StartupOnce ==
  [][/\ startup.output => startup.queued = <<>>
     /\ error # "unread" => startup'.run \o startup'.queued = startup.run \o startup.queued
     /\ (error = "unread" /\ error' # "unread") =>
          startup'.run \o startup'.queued = config'.commands]_config_vars
=============================================================================
