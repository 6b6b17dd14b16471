----------------------------- MODULE Supervisor -----------------------------
(***************************************************************************)
(* What the sing-box Manager promises its callers: between a Start and the *)
(* next Stop a crashed process may be brought back, outside it never is;   *)
(* there is one process, and giving up is final until a Start succeeds.    *)
(***************************************************************************)
VARIABLES
    wanted,   \* a Start succeeded and no Stop came after it
    up,       \* a healthy process launched by this agent exists
    gaveUp    \* GaveUp(), what /health reports

vars == <<wanted, up, gaveUp>>

Init == wanted = FALSE /\ up = FALSE /\ gaveUp = FALSE

Start   == ~up /\ wanted' = TRUE /\ up' = TRUE /\ UNCHANGED gaveUp
Stop    == wanted' = FALSE /\ up' = FALSE /\ UNCHANGED gaveUp
Crash   == up /\ up' = FALSE /\ UNCHANGED <<wanted, gaveUp>>
Restart == wanted /\ ~up /\ up' = TRUE /\ UNCHANGED <<wanted, gaveUp>>
GiveUp  == wanted /\ ~up /\ gaveUp' = TRUE /\ UNCHANGED <<wanted, up>>
Recover == wanted /\ gaveUp' = FALSE /\ UNCHANGED <<wanted, up>>

\* The agent itself is replaced: nothing is promised across its restart.
Forget  == wanted' = FALSE /\ up' = FALSE /\ gaveUp' = FALSE

Next == Start \/ Stop \/ Crash \/ Restart \/ GiveUp \/ Recover \/ Forget

Spec == Init /\ [][Next]_vars
=============================================================================
