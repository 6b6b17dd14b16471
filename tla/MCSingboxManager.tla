-------------------------- MODULE MCSingboxManager --------------------------
(* Model-checking instance of the sing-box supervisor.                     *)
EXTENDS SingboxManager
=============================================================================
