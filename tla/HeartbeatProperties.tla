-------------------------- MODULE HeartbeatProperties --------------------------
(***************************************************************************)
(* What the warning about a client that does not answer may rely on.       *)
(***************************************************************************)
EXTENDS Heartbeat

\* A client that owes no answer is pinged again -- also one that answered when it
\* had been given up (client_pong clears the deadline and the verdict) -- unless
\* it goes.
PingedAgain == \A c \in Clients : (Known(c) /\ c \notin asked) ~> (c \in asked \/ ~Known(c))
=============================================================================
