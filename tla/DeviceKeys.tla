----------------------------- MODULE DeviceKeys -----------------------------
(***************************************************************************)
(* The list of device keys, authorized_keys.json: tunnel.AuthKeyStore and  *)
(* the obox-key commands that change it.                                   *)
(*                                                                         *)
(* Every obox-key command is a process of its own, so AuthKeyStore.mu      *)
(* orders nothing between two of them.  A command reads the list, computes *)
(* the new one, writes it to authorized_keys.json.tmp, a name all commands *)
(* share, and renames that to authorized_keys.json.  A command may be      *)
(* killed, or fail to write, between any two steps.  The agent only reads: *)
(* for each login (Authorized) and for each poll (Fingerprints).           *)
(*                                                                         *)
(* Files are inodes with names: a command that still has the temporary     *)
(* file open when another one renames it goes on writing the list itself.  *)
(***************************************************************************)
EXTENDS Naturals, FiniteSets

CONSTANTS
    Keys,         \* device keys; a key and its fingerprint are one thing here
    Procs,        \* obox-key processes that may run at the same time
    Inodes,       \* files of the directory
    None,         \* no such file, no command
    MaxCommands,  \* bound: commands started
    MaxFaults     \* bound: commands killed and writes failed

ASSUME KeysConstants ==
    /\ None \notin Inodes
    /\ MaxCommands \in Nat /\ MaxFaults \in Nat

VARIABLES
    data,         \* data[i]: the content of inode i
    file, tmp,    \* the inodes named authorized_keys.json and ....json.tmp
    pc, cmd,      \* where each command is, and what it was asked to do
    fd,           \* fd[p]: the inode p has open for writing
    list,         \* list[p]: the keys p is about to write
    commands, faults,
    \* history: the commands no other one has overlapped so far; whether two
    \* commands ever overlapped; what a command that ran alone promised of a key
    alone, raced, promised

disk    == <<data, file, tmp>>
process == <<pc, cmd, fd, list>>
bounds  == <<commands, faults>>
history == <<alone, raced, promised>>
vars    == <<disk, process, bounds, history>>

Command == [op : {"add", "rm", "reset"}, key : Keys]
Content == [kind : {"blank", "torn", "list"}, keys : SUBSET Keys]

\* The content of a file just truncated, written by half, and written.
Blank      == [kind |-> "blank", keys |-> {}]
Torn       == [kind |-> "torn", keys |-> {}]
List(keys) == [kind |-> "list", keys |-> keys]

TypeOK ==
    /\ data \in [Inodes -> Content]
    /\ file \in Inodes \cup {None} /\ tmp \in Inodes \cup {None}
    /\ pc \in [Procs -> {"off", "read", "open", "write", "rename"}]
    /\ cmd \in [Procs -> {None} \cup Command] /\ fd \in [Procs -> Inodes \cup {None}]
    /\ list \in [Procs -> SUBSET Keys]
    /\ commands \in 0 .. MaxCommands /\ faults \in 0 .. MaxFaults
    /\ alone \subseteq Procs /\ raced \in BOOLEAN
    /\ promised \in [Keys -> {"nothing", "in", "out"}]

\* A machine installed without --owner-key has no list.
Init ==
    /\ data = [i \in Inodes |-> Blank] /\ file = None /\ tmp = None
    /\ pc = [p \in Procs |-> "off"] /\ fd = [p \in Procs |-> None]
    /\ cmd = [p \in Procs |-> None]
    /\ list = [p \in Procs |-> {}]
    /\ commands = 0 /\ faults = 0
    /\ alone = {} /\ raced = FALSE /\ promised = [k \in Keys |-> "nothing"]

Running == {p \in Procs : pc[p] # "off"}

Fault == faults < MaxFaults /\ faults' = faults + 1

-----------------------------------------------------------------------------
(* AuthKeyStore, as its readers see it.                                    *)

\* json.Unmarshal accepts the file; a missing one is an empty list.
Readable == IF file = None THEN TRUE ELSE data[file].kind = "list"

\* listLocked, if it does not fail.
listed == IF file = None THEN {} ELSE data[file].keys

\* Authorized: an unreadable list lets nobody in.
Authorized(k) == Readable /\ k \in listed

-----------------------------------------------------------------------------
(* The commands.                                                           *)

\* The keys a command speaks about; a reset speaks about all of them.
Concerns(c) == IF c.op = "reset" THEN Keys ELSE {c.key}

\* What a successful command promises of key k.
Promise(c, k) == IF c.op # "rm" /\ k = c.key THEN "in" ELSE "out"

\* runOboxKey.  Reset computes its list without reading the old one.
Start(p, c) ==
    /\ pc[p] = "off" /\ commands < MaxCommands
    /\ commands' = commands + 1
    /\ cmd' = [cmd EXCEPT ![p] = c]
    /\ pc' = [pc EXCEPT ![p] = IF c.op = "reset" THEN "open" ELSE "read"]
    /\ list' = [list EXCEPT ![p] = IF c.op = "reset" THEN {c.key} ELSE {}]
    /\ alone' = IF Running = {} THEN {p} ELSE {}
    /\ raced' = (raced \/ Running # {})
    /\ promised' = [k \in Keys |-> IF k \in Concerns(c) THEN "nothing" ELSE promised[k]]
    /\ UNCHANGED <<disk, fd, faults>>

\* The process is over; the inode it had open loses a reference.
End(p) ==
    /\ pc' = [pc EXCEPT ![p] = "off"] /\ fd' = [fd EXCEPT ![p] = None]
    /\ cmd' = [cmd EXCEPT ![p] = None] /\ list' = [list EXCEPT ![p] = {}]
    /\ alone' = alone \ {p}
    /\ UNCHANGED <<commands, raced>>

Fails(p) == End(p) /\ UNCHANGED promised

\* The command reports success.
Succeeds(p) ==
    /\ End(p)
    /\ promised' = IF p \in alone
                   THEN [k \in Keys |-> IF k \in Concerns(cmd[p]) THEN Promise(cmd[p], k)
                                                                  ELSE promised[k]]
                   ELSE promised

\* Mutated: the last key may go.
RefusesUnknown(k, keys) == k \notin keys

\* Remove refuses an unknown key, and to leave nobody.
Refuses(k, keys) == k \notin keys \/ keys = {k}

\* Add and Remove read the list and decide; adding a key twice changes nothing.
Read(p) ==
    /\ pc[p] = "read"
    /\ LET k == cmd[p].key
           Goes(keys) == /\ list' = [list EXCEPT ![p] = keys]
                         /\ pc' = [pc EXCEPT ![p] = "open"]
                         /\ UNCHANGED <<cmd, fd, commands, history>>
       IN  \/ ~Readable /\ Fails(p)
           \/ /\ Readable /\ cmd[p].op = "add"
              /\ \/ k \in listed /\ Succeeds(p)
                 \/ k \notin listed /\ Goes(listed \cup {k})
           \/ /\ Readable /\ cmd[p].op = "rm"
              /\ \/ Refuses(k, listed) /\ Fails(p)
                 \/ ~Refuses(k, listed) /\ Goes(listed \ {k})
    /\ UNCHANGED <<disk, faults>>

\* Inodes nothing refers to.
Free == {i \in Inodes : i # file /\ i # tmp /\ \A p \in Procs : fd[p] # i}

\* Mutated: the list itself is opened and truncated.
OpenInPlace(p) ==
    /\ pc[p] = "open"
    /\ \E i \in IF file = None THEN Free ELSE {file} :
         /\ file' = i /\ tmp' = i /\ data' = [data EXCEPT ![i] = Blank]
         /\ fd' = [fd EXCEPT ![p] = i]
    /\ pc' = [pc EXCEPT ![p] = "write"]
    /\ UNCHANGED <<cmd, list, bounds, history>>

\* writeLocked, os.WriteFile: the temporary file is created or truncated ...
Open(p) ==
    /\ pc[p] = "open"
    /\ \/ /\ \E i \in IF tmp = None THEN Free ELSE {tmp} :
               /\ tmp' = i /\ data' = [data EXCEPT ![i] = Blank]
               /\ fd' = [fd EXCEPT ![p] = i]
          /\ pc' = [pc EXCEPT ![p] = "write"]
          /\ UNCHANGED <<file, cmd, list, bounds, history>>
       \/ Fault /\ Fails(p) /\ UNCHANGED disk

\* Two commands write the same inode from its beginning: the first may be the
\* longer one, and its end then stays behind the second.
Written(old, keys) == IF old = Blank THEN {List(keys)} ELSE {List(keys), Torn}

\* ... and written; a full disk leaves half of it.
Write(p) ==
    /\ pc[p] = "write"
    /\ \/ /\ \E c \in Written(data[fd[p]], list[p]) : data' = [data EXCEPT ![fd[p]] = c]
          /\ pc' = [pc EXCEPT ![p] = "rename"] /\ fd' = [fd EXCEPT ![p] = None]
          /\ UNCHANGED <<cmd, list, bounds, history>>
       \/ Fault /\ data' = [data EXCEPT ![fd[p]] = Torn] /\ Fails(p)
    /\ UNCHANGED <<file, tmp>>

\* os.Rename; there is nothing to rename if another command has done it.
Rename(p) ==
    /\ pc[p] = "rename"
    /\ IF tmp = None
       THEN Fails(p) /\ UNCHANGED disk
       ELSE file' = tmp /\ tmp' = None /\ data' = data /\ Succeeds(p)
    /\ UNCHANGED faults

\* The command is killed, perhaps inside a write.
Kill(p) ==
    /\ pc[p] # "off" /\ Fault /\ Fails(p)
    /\ \/ data' = data
       \/ pc[p] = "write" /\ data' = [data EXCEPT ![fd[p]] = Torn]
    /\ UNCHANGED <<file, tmp>>

Next ==
    \E p \in Procs :
        \/ \E c \in Command : Start(p, c)
        \/ Read(p) \/ Open(p) \/ Write(p) \/ Rename(p) \/ Kill(p)

Spec == Init /\ [][Next]_vars

-----------------------------------------------------------------------------
(* Properties.                                                             *)

\* Whatever commands overlap, fail or are killed, the list never becomes an
\* empty one: nobody could get in and only a reinstallation would help (Remove).
NeverEmptied == file # None => data[file] # List({})

\* A command that succeeded and that no other one overlapped is not undone by
\* what overlaps, fails or is killed later: the key it removed stays locked out
\* (also every other key, after a reset), the key it granted stays in the list,
\* until a command about that key begins.  And commands that never overlapped
\* leave a readable list, wherever they were killed.
UndisturbedCommandsHold ==
    /\ \A k \in Keys : /\ promised[k] = "out" => ~Authorized(k)
                       /\ promised[k] = "in" /\ Readable => Authorized(k)
    /\ ~raced => Readable

=============================================================================
