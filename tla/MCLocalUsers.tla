---------------------------- MODULE MCLocalUsers ----------------------------
(* Model-checking instance of the local users and their data plane.        *)
EXTENDS LocalUsers

CONSTANT u1

=============================================================================
