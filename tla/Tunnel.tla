------------------------------- MODULE Tunnel -------------------------------
(***************************************************************************)
(* tunnel.Manager: the sessions an agent has open to the backend.  Open is *)
(* called by the command executor, hence by one goroutine, and dials       *)
(* without holding Manager.mu.  Each session has a goroutine that serves   *)
(* it and a watcher that closes its connection when its context is         *)
(* cancelled.  The SSH server behind a session is module SSHSession; here  *)
(* it ends when reading from the connection fails.                         *)
(***************************************************************************)
EXTENDS Naturals, FiniteSets

CONSTANTS
    Sessions,   \* session ids of open_tunnel commands
    MaxOpen     \* Manager.maxOpen

ASSUME TunnelConstants == MaxOpen \in Nat \ {0}

VARIABLES
    active,     \* the keys of Manager.active
    dialing,    \* the session Open is dialing for, as a set of at most one
    sock,       \* sock[s]: the WebSocket of the session
    silent,     \* sessions whose far end sends nothing any more, no ping either
    serve,      \* serve[s]: where the goroutine of the session is
    cancelled   \* sessions whose context is cancelled

tunnels == <<active, dialing, sock, silent, serve, cancelled>>

TunnelTypeOK ==
    /\ active \subseteq Sessions /\ dialing \subseteq Sessions
    /\ silent \subseteq Sessions /\ cancelled \subseteq Sessions
    /\ sock \in [Sessions -> {"open", "closed"}]
    /\ serve \in [Sessions -> {"none", "ssh", "delete"}]

\* NewManager.
TunnelInit ==
    /\ active = {} /\ dialing = {} /\ silent = {} /\ cancelled = {}
    /\ sock = [s \in Sessions |-> "closed"]
    /\ serve = [s \in Sessions |-> "none"]

\* The end of the process that has the sessions.
TunnelsDie ==
    /\ active' = {} /\ dialing' = {} /\ silent' = {} /\ cancelled' = {}
    /\ sock' = [s \in Sessions |-> "closed"]
    /\ serve' = [s \in Sessions |-> "none"]

Open == {s \in Sessions : sock[s] = "open"}

\* Mutated: one session too many.
AdmitsOneMore == Cardinality(active) <= MaxOpen

\* There is room for another session.
Admits == Cardinality(active) < MaxOpen

\* Open's checks, under the lock.
OpenBegin(s) ==
    /\ dialing = {} /\ s \notin active /\ Admits
    /\ dialing' = {s}
    /\ UNCHANGED <<active, sock, silent, serve, cancelled>>

\* The dial fails, or the session is entered into the map and served.
OpenFails(s) ==
    /\ s \in dialing /\ dialing' = {}
    /\ UNCHANGED <<active, sock, silent, serve, cancelled>>

OpenOk(s) ==
    /\ s \in dialing /\ dialing' = {}
    /\ active' = active \cup {s}
    /\ sock' = [sock EXCEPT ![s] = "open"] /\ serve' = [serve EXCEPT ![s] = "ssh"]
    /\ UNCHANGED <<silent, cancelled>>

\* Mutated: without the read deadline a silent far end is never noticed.
ReadFailsOnClose(s) == sock[s] = "closed"

\* Serve's read fails: closed here, or 90 seconds without a ping (a far end that
\* closes is noticed likewise, at once).
ReadFails(s) == sock[s] = "closed" \/ s \in silent

\* Mutated: the entry goes first, the connection after it.
ServeEndsDeletedFirst(s) ==
    /\ serve[s] = "ssh" /\ ReadFails(s)
    /\ active' = active \ {s} /\ serve' = [serve EXCEPT ![s] = "delete"]
    /\ UNCHANGED <<dialing, sock, silent, cancelled>>

\* The deferred function of serve closes the connection ...
ServeEnds(s) ==
    /\ serve[s] = "ssh" /\ ReadFails(s)
    /\ sock' = [sock EXCEPT ![s] = "closed"] /\ serve' = [serve EXCEPT ![s] = "delete"]
    /\ UNCHANGED <<active, dialing, silent, cancelled>>

\* ... and deletes the entry.
ServeDeletes(s) ==
    /\ serve[s] = "delete"
    /\ active' = active \ {s} /\ serve' = [serve EXCEPT ![s] = "none"]
    /\ silent' = silent \ {s} /\ cancelled' = cancelled \ {s}
    /\ UNCHANGED <<dialing, sock>>

\* CloseAll cancels the contexts of the sessions in the map.
CloseAll ==
    /\ cancelled' = cancelled \cup active
    /\ UNCHANGED <<active, dialing, sock, silent, serve>>

\* The watcher of a cancelled session.
WatcherCloses(s) ==
    /\ s \in cancelled /\ sock[s] = "open"
    /\ sock' = [sock EXCEPT ![s] = "closed"]
    /\ UNCHANGED <<active, dialing, silent, serve, cancelled>>

\* The backend closes the connection, or the path to it fails without a word.
PeerLeaves(s) ==
    /\ sock[s] = "open" /\ silent' = silent \cup {s}
    /\ UNCHANGED <<active, dialing, sock, serve, cancelled>>

\* The goroutines of session s.
ServeStep(s) == ServeEnds(s) \/ ServeDeletes(s) \/ WatcherCloses(s)

=============================================================================
