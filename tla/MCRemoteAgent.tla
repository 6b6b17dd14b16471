---------------------------- MODULE MCRemoteAgent ----------------------------
(* Model-checking instance of remote and hybrid mode: the second version of *)
(* the server's list replaces user u1 by u2.                                *)
EXTENDS RemoteAgent

CONSTANTS u1, u2

MCContent == [v \in Versions |-> IF v = 1 THEN {u1} ELSE {u2}]
=============================================================================
