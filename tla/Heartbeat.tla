------------------------------- MODULE Heartbeat -------------------------------
(***************************************************************************)
(* Which xdg-shell clients still answer (handlers/xdg_shell.rs): a ping    *)
(* every CLIENT_PING_INTERVAL, a warning when CLIENT_PING_TIMEOUT passes   *)
(* without a pong.  The timeout is the shorter of the two: no ping falls   *)
(* due while a deadline runs.                                              *)
(***************************************************************************)
CONSTANTS Clients

VARIABLES
  tracker,  \* xdg_clients: next_ping has passed (due), the deadline, timed_out
  asked     \* the clients that have a ping to answer (kept by smithay)

heartbeat_vars == <<tracker, asked>>

New == [due |-> FALSE, deadline |-> "none", timed_out |-> FALSE]
Gone == [due |-> FALSE, deadline |-> "gone", timed_out |-> FALSE]

HeartbeatInit ==
  /\ tracker = [c \in Clients |-> Gone]
  /\ asked = {}

Known(c) == tracker[c] # Gone

\* new_client.
NewClient(c) ==
  /\ ~Known(c)
  /\ tracker' = [tracker EXCEPT ![c] = New]
  /\ UNCHANGED asked

\* client_destroyed; poll_xdg_clients forgets a client that is dead as well.
ClientDestroyed(c) ==
  /\ Known(c)
  /\ tracker' = [tracker EXCEPT ![c] = Gone]
  /\ asked' = asked \ {c}

\* Mutant: only the verdict is withdrawn.
ClearedVerdict(t) == [t EXCEPT !.timed_out = FALSE]

Cleared(t) == New

\* client_pong: in time, or after the client has been given up.  smithay takes only
\* the answer to its last ping.
ClientPong(c) ==
  /\ c \in asked
  /\ asked' = asked \ {c}
  /\ tracker' = [tracker EXCEPT ![c] = Cleared(@)]

\* Time: next_ping, and the deadline, pass.
IntervalEnds(c) ==
  /\ Known(c) /\ ~tracker[c].due /\ tracker[c].deadline # "running"
  /\ tracker' = [tracker EXCEPT ![c].due = TRUE]
  /\ UNCHANGED asked

DeadlinePasses(c) ==
  /\ tracker[c].deadline = "running"
  /\ tracker' = [tracker EXCEPT ![c].deadline = "passed"]
  /\ UNCHANGED asked

\* ping_due.
PingDue(t) ==
  IF ~t.timed_out /\ t.deadline = "passed" THEN "timeout"
  ELSE IF t.deadline = "none" /\ t.due THEN "send"
  ELSE "none"

\* smithay refuses a ping while another is unanswered; next_ping moves on then, too.
Sent(t, refused) ==
  [t EXCEPT !.due = FALSE, !.deadline = IF refused THEN @ ELSE "running"]

\* poll_xdg_clients: before every frame, and once a second.
Poll ==
  /\ \E c \in Clients : Known(c) /\ PingDue(tracker[c]) # "none"
  /\ tracker' =
       [c \in Clients |->
          LET t == tracker[c]
          IN IF ~Known(c) THEN t
             ELSE CASE PingDue(t) = "timeout" -> [t EXCEPT !.timed_out = TRUE]
                    [] PingDue(t) = "send"    -> Sent(t, c \in asked)
                    [] OTHER                  -> t]
  /\ asked' = asked \cup {c \in Clients : Known(c) /\ PingDue(tracker[c]) = "send"}

HeartbeatNext ==
  \/ Poll
  \/ \E c \in Clients :
       NewClient(c) \/ ClientDestroyed(c) \/ ClientPong(c) \/ IntervalEnds(c) \/ DeadlinePasses(c)

HeartbeatSpec == HeartbeatInit /\ [][HeartbeatNext]_heartbeat_vars

\* Time passes, and the maintenance timer of main.rs goes on.
HeartbeatFairness ==
  /\ WF_heartbeat_vars(Poll)
  /\ \A c \in Clients : WF_heartbeat_vars(IntervalEnds(c)) /\ WF_heartbeat_vars(DeadlinePasses(c))

=============================================================================
