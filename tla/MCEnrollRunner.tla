--------------------------- MODULE MCEnrollRunner ---------------------------
(* Model-checking instance of the outbound channel.  ct opens a tunnel, cu  *)
(* upgrades to a release that cannot reach the backend, cv to a newer one   *)
(* that can.                                                               *)
EXTENDS EnrollRunner, TLC

CONSTANTS ct, cu, cv

MCType       == [c \in Commands |-> IF c = ct THEN "open_tunnel" ELSE "upgrade_agent"]
MCReleaseTag == [c \in Commands |-> CASE c = ct -> 1 [] c = cu -> 2 [] c = cv -> 3]
=============================================================================
