---------------------------- MODULE NodeLifecycle ----------------------------
(***************************************************************************)
(* A node from its installation to its deletion: install.sh, Agent.Run,    *)
(* startEnrollment, Runner.Prepare and register, node.json, the terminal   *)
(* poll and handleRevoked, together with the tunnels (module Tunnel) and   *)
(* the local users that revocation has to take down.                       *)
(*                                                                         *)
(* In the agent run the main goroutine, which registers and then enters    *)
(* the main loop, the Runner's goroutine, which polls, opens tunnels and   *)
(* handles the revocation, one regenerateConfig at a time, HTTP handlers   *)
(* that change the Store, and the goroutines of the tunnels.  systemd      *)
(* restarts an agent that ends, unless it exits with code 3 or is stopped, *)
(* and takes sing-box, which is in the same control group, down with it.   *)
(* Commands and upgrades are module EnrollRunner, accounting and quotas    *)
(* module LocalUsers.                                                      *)
(***************************************************************************)
EXTENDS Tunnel

CONSTANTS
    Users,       \* uuids of local users
    MaxTokens,   \* bound: enrolment tokens the App issues
    MaxInstalls, \* bound: runs of install.sh
    MaxFaults    \* bound: deaths, lost answers, failed writes, damaged files

ASSUME NodeConstants ==
    MaxTokens \in Nat /\ MaxInstalls \in Nat /\ MaxFaults \in Nat

VARIABLES
    inst,        \* where install.sh is
    issued,      \* the number of tokens issued
    installs,    \* the number of runs of install.sh
    mine,        \* the token install.sh was given, 0 before the first installation
    unit,        \* the token in the systemd unit, 0 if there is none
    tok,         \* tok[t]: the state of token t at the backend
    backend,     \* the node at the backend
    gen,         \* the number of secrets the backend has issued to this machine
    node,        \* node.json: the secret in it, 0 if absent, Half if unreadable
    proc,        \* the agent's process as systemd sees it
    env,         \* OTUN_ENROLL_TOKEN of the process
    main, run,   \* the main goroutine and the Runner's
    secret,      \* the secret of an answer not yet saved
    mem, disk,   \* Store.users and local_users.json
    waiting,     \* regenerations waiting for regenMu
    regen,       \* the users a regeneration has listed, as a set of one list
    conf,        \* the users of config.json
    served,      \* the users of the running sing-box
    faults,
    \* history: the value of gen when the installation began; users created; those
    \* in the Store when the node was found to be deleted; since the installation
    \* began: node.json was removed for that reason, the backend issued a secret
    \* this machine lost, node.json was damaged; whether a write ever failed; why
    \* the last registration was refused
    before, born, doomed, cleaned, orphan, corrupted, damaged, refused

given     == <<issued, installs, mine, before>>
installer == <<inst, given, unit>>
cloud     == <<tok, backend, gen>>
process   == <<proc, env, main, run, secret>>
plane     == <<mem, disk, waiting, regen, conf, served>>
history   == <<born, doomed, cleaned, orphan, corrupted, damaged, refused>>
vars      == <<installer, cloud, node, process, plane, tunnels, faults, history>>

Half   == MaxTokens + 1
Usable == node \in 1 .. MaxTokens

\* One type invariant: every variable ranges over the values the code gives it.
TypeOK ==
    /\ TunnelTypeOK
    /\ inst \in {"idle", "clean", "start", "wait", "ok", "failed"}
    /\ issued \in 0 .. MaxTokens /\ installs \in 0 .. MaxInstalls
    /\ mine \in 0 .. MaxTokens /\ before \in 0 .. MaxTokens
    /\ unit \in 0 .. MaxTokens /\ env \in 0 .. MaxTokens
    /\ tok \in [1 .. MaxTokens -> {"none", "fresh", "used", "expired"}]
    /\ backend \in {"none", "active", "deleted"} /\ gen \in 0 .. MaxTokens
    /\ node \in 0 .. Half /\ secret \in 0 .. MaxTokens
    /\ proc \in {"absent", "up", "down", "stopped"}
    /\ main \in {"none", "init", "register", "save", "start", "loop"}
    /\ run \in {"none", "poll", "close", "clear", "stop", "clean", "quit", "done"}
    /\ mem \subseteq Users /\ disk \subseteq Users /\ conf \subseteq Users
    /\ served \subseteq Users /\ waiting \in Nat /\ regen \subseteq SUBSET Users
    /\ faults \in 0 .. MaxFaults /\ born \subseteq Users /\ doomed \subseteq Users
    /\ {cleaned, orphan, corrupted, damaged} \subseteq BOOLEAN
    /\ refused \in {"no", "used", "expired", "rejected"}

Init ==
    /\ TunnelInit
    /\ inst = "idle" /\ issued = 0 /\ installs = 0 /\ mine = 0 /\ before = 0 /\ unit = 0
    /\ tok = [t \in 1 .. MaxTokens |-> "none"] /\ backend = "none" /\ gen = 0
    /\ node = 0 /\ proc = "absent" /\ env = 0 /\ main = "none" /\ run = "none" /\ secret = 0
    /\ mem = {} /\ disk = {} /\ waiting = 0 /\ regen = {} /\ conf = {} /\ served = {}
    /\ faults = 0 /\ born = {} /\ doomed = {}
    /\ cleaned = FALSE /\ orphan = FALSE /\ corrupted = FALSE /\ damaged = FALSE
    /\ refused = "no"

Fault == faults < MaxFaults /\ faults' = faults + 1

\* Store.save fails; a file cut short is loaded as an empty one.
SaveFails == Fault /\ damaged' = TRUE /\ disk' \in {disk, {}}

\* regenerateConfig with a list of users: WriteToFile, then Reload or Start; the
\* failure of either is logged.
Apply(users) ==
    \/ conf' = users /\ served' = users /\ UNCHANGED <<faults, damaged>>
    \/ Fault /\ damaged' = TRUE /\ (UNCHANGED <<conf, served>> \/ (conf' = users /\ served' = {}))

\* The process ends: its goroutines, its memory, its connections and sing-box go.
Death ==
    /\ env' = 0 /\ main' = "none" /\ run' = "none" /\ secret' = 0
    /\ mem' = {} /\ waiting' = 0 /\ regen' = {} /\ served' = {}
    /\ TunnelsDie
    /\ UNCHANGED disk

-----------------------------------------------------------------------------
(* install.sh --enroll-token.                                              *)

\* The user runs the script with a token the App has just issued, or runs it again
\* with one he has, fresh, expired or used.  The script stops the old agent and
\* removes its unit and config.json.  The users stay.
InstallBegin(t) ==
    /\ inst \in {"idle", "ok", "failed"}
    /\ installs < MaxInstalls /\ installs' = installs + 1
    /\ \/ t \in 1 .. issued /\ UNCHANGED <<issued, tok>>
       \/ /\ issued < MaxTokens /\ t = issued + 1
          /\ issued' = t /\ tok' = [tok EXCEPT ![t] = "fresh"]
    /\ inst' = "clean" /\ mine' = t /\ before' = gen /\ unit' = 0
    /\ proc' = "absent" /\ conf' = {} /\ Death
    /\ cleaned' = FALSE /\ orphan' = FALSE /\ corrupted' = FALSE /\ refused' = "no"
    /\ UNCHANGED <<backend, gen, node, faults, born, doomed, damaged>>

\* Step 0 of the contract: installing with a token always registers anew, although
\* the credentials may be good and the token used.
InstallClean ==
    /\ inst = "clean" /\ inst' = "start" /\ node' = 0
    /\ UNCHANGED <<given, unit, cloud, process, plane, tunnels, faults, history>>

\* The unit is written with the token, enabled and started.
InstallStart ==
    /\ inst = "start" /\ inst' = "wait"
    /\ unit' = mine /\ proc' = "down"
    /\ UNCHANGED <<given, cloud, node, env, main, run, secret, plane, tunnels, faults, history>>

\* node.json has appeared: the token is no longer needed.
InstallSeen ==
    /\ inst = "wait" /\ node # 0
    /\ inst' = "ok" /\ unit' = 0
    /\ UNCHANGED <<given, cloud, node, process, plane, tunnels, faults, history>>

\* node.json appears after the last look of the loop and before the final test: the
\* installation is complete, and the token stays in the unit.
InstallSeenLate ==
    /\ inst = "wait" /\ node # 0 /\ inst' = "ok"
    /\ UNCHANGED <<given, unit, cloud, node, process, plane, tunnels, faults, history>>

\* Sixty seconds without node.json, or the script is interrupted.
InstallFails ==
    /\ \/ inst = "wait" /\ node = 0 /\ UNCHANGED faults
       \/ inst \in {"clean", "start", "wait"} /\ Fault
    /\ inst' = "failed"
    /\ UNCHANGED <<given, unit, cloud, node, process, plane, tunnels, history>>

Installer ==
    \/ (\E t \in 1 .. MaxTokens : InstallBegin(t)) \/ InstallClean \/ InstallStart
    \/ InstallSeen \/ InstallSeenLate \/ InstallFails

-----------------------------------------------------------------------------
(* The main goroutine.                                                     *)

\* systemd starts the agent; NewStore loads the users.
Boot ==
    /\ proc = "down" /\ proc' = "up" /\ env' = unit /\ main' = "init"
    /\ mem' = disk
    /\ UNCHANGED <<installer, cloud, node, run, secret, disk, waiting, regen, conf, served,
                   tunnels, faults, history>>

\* Mutated: a token is used although the node is enrolled.
EnrollByToken ==
    IF env # 0 THEN main' = "register" /\ run' = run
    ELSE main' = "start" /\ run' = IF Usable THEN "poll" ELSE run

\* startEnrollment and Prepare: node.json first, then the token; with neither the
\* agent serves its local users.
Enroll ==
    IF Usable THEN main' = "start" /\ run' = "poll"
    ELSE main' = (IF env # 0 THEN "register" ELSE "start") /\ run' = run

\* Run: initLocalMode regenerates the configuration, then startEnrollment begins.
InitLocalMode ==
    /\ main = "init" /\ regen = {}
    /\ Apply(mem) /\ Enroll
    /\ UNCHANGED <<installer, cloud, node, proc, env, secret, mem, disk, waiting, regen, tunnels,
                   born, doomed, cleaned, orphan, corrupted, refused>>

\* The request arrives and the token is good: the backend takes it and issues a
\* secret.  A request that does not arrive, or a 5xx or 429, changes nothing.
Accepted ==
    /\ main = "register" /\ tok[env] = "fresh"
    /\ tok' = [tok EXCEPT ![env] = "used"] /\ backend' = "active" /\ gen' = gen + 1
    /\ UNCHANGED <<installer, node, proc, env, run, plane, tunnels, born, doomed, cleaned,
                   corrupted, damaged, refused>>

RegisterOk ==
    /\ Accepted
    /\ main' = "save" /\ secret' = gen + 1
    /\ UNCHANGED <<faults, orphan>>

\* The answer is lost; register tries again.
RegisterLost ==
    /\ Accepted /\ Fault /\ orphan' = TRUE
    /\ UNCHANGED <<main, secret>>

\* Mutated: a token that has expired is taken for a passing failure.
IsFatalUnlessExpired(code) == code \in {"used", "rejected"}

\* bad_request, token_invalid, token_expired, token_used, agent_too_old
IsFatalRegister(code) == code \in {"used", "expired", "rejected"}

\* A fatal refusal ends the agent with code 3.
RegisterRefused(code) ==
    /\ main = "register" /\ IsFatalRegister(code)
    /\ proc' = "stopped" /\ refused' = code /\ Death
    /\ UNCHANGED <<installer, cloud, node, conf, faults, born, doomed, cleaned, orphan, corrupted,
                   damaged>>

RegisterAnswered ==
    /\ main = "register"
    /\ \/ RegisterOk
       \/ tok[env] \in {"used", "expired"} /\ RegisterRefused(tok[env])

\* The request or the version is not accepted, whatever the token.
RegisterRejected == RegisterRefused("rejected")

\* Mutated: a failed save leaves half a file behind.
SaveNodeFileInPlace ==
    \/ node' = secret /\ run' = "poll" /\ UNCHANGED <<faults, orphan>>
    \/ Fault /\ node' = Half /\ orphan' = TRUE /\ run' = run

\* SaveNodeFile, through a synced temporary file.  When it fails startEnrollment
\* returns the error and the agent goes on without the backend.
SaveNodeFile ==
    \/ node' = secret /\ run' = "poll" /\ UNCHANGED <<faults, orphan>>
    \/ Fault /\ node' = node /\ orphan' = TRUE /\ run' = run

RegisterSaves ==
    /\ main = "save" /\ main' = "start" /\ secret' = 0 /\ SaveNodeFile
    /\ UNCHANGED <<installer, cloud, proc, env, plane, tunnels, born, doomed, cleaned, corrupted,
                   damaged, refused>>

\* manager.Start, refused if sing-box is running; then the main loop.
MainStart ==
    /\ main = "start" /\ main' = "loop" /\ served' = conf
    /\ UNCHANGED <<installer, cloud, node, proc, env, run, secret, mem, disk, waiting, regen,
                   conf, tunnels, faults, history>>

\* The context is cancelled: Stop, then exit code 3.
MainExits ==
    /\ main = "loop" /\ run = "done"
    /\ proc' = "stopped" /\ Death
    /\ UNCHANGED <<installer, cloud, node, conf, faults, history>>

-----------------------------------------------------------------------------
(* The Runner: open_tunnel, the terminal poll, handleRevoked.              *)

Tunnels(A) ==
    /\ A
    /\ UNCHANGED <<installer, cloud, node, process, plane, faults, history>>

OpenTunnel ==
    /\ run = "poll"
    /\ Tunnels(\E s \in Sessions : OpenBegin(s) \/ OpenFails(s) \/ OpenOk(s))

\* The answer to a poll is node_revoked or node_not_found.
PollTerminal ==
    /\ run = "poll" /\ dialing = {} /\ backend = "deleted"
    /\ run' = "close" /\ doomed' = doomed \cup mem
    /\ UNCHANGED <<installer, cloud, node, proc, env, main, secret, plane, tunnels, faults, born,
                   cleaned, orphan, corrupted, damaged, refused>>

\* Mutated: the credentials go before the users.
RevokedCleansFirst ==
    /\ run = "close" /\ run' = "clear" /\ CloseAll
    /\ node' = 0 /\ cleaned' = TRUE
    /\ UNCHANGED <<installer, cloud, proc, env, main, secret, plane, faults, born, doomed, orphan,
                   corrupted, damaged, refused>>

\* handleRevoked: the tunnels first.
RevokedCloses ==
    /\ run = "close" /\ run' = "clear" /\ CloseAll
    /\ UNCHANGED <<installer, cloud, node, proc, env, main, secret, plane, faults, history>>

\* Store.Clear; a failed save is logged, and spawns no regeneration.
RevokedClears ==
    /\ run = "clear" /\ run' = "stop" /\ mem' = {}
    /\ \/ disk' = {} /\ waiting' = waiting + 1 /\ UNCHANGED <<faults, damaged>>
       \/ SaveFails /\ UNCHANGED waiting
    /\ UNCHANGED <<installer, cloud, node, proc, env, main, secret, regen, conf, served, tunnels,
                   born, doomed, cleaned, orphan, corrupted, refused>>

RevokedStops ==
    /\ run = "stop" /\ run' = "clean" /\ served' = {}
    /\ UNCHANGED <<installer, cloud, node, proc, env, main, secret, mem, disk, waiting, regen,
                   conf, tunnels, faults, history>>

\* Cleanup removes node.json; a failure is logged.
RevokedCleans ==
    /\ run = "clean" /\ run' = "quit"
    /\ \/ node' = 0 /\ cleaned' = TRUE /\ UNCHANGED faults
       \/ Fault /\ UNCHANGED <<node, cleaned>>
    /\ UNCHANGED <<installer, cloud, proc, env, main, secret, plane, tunnels, born, doomed, orphan,
                   corrupted, damaged, refused>>

\* The main loop is told to end.
RevokedQuits ==
    /\ run = "quit" /\ run' = "done"
    /\ UNCHANGED <<installer, cloud, node, proc, env, main, secret, plane, tunnels, faults,
                   history>>

handleRevoked ==
    RevokedCloses \/ RevokedClears \/ RevokedStops \/ RevokedCleans \/ RevokedQuits

-----------------------------------------------------------------------------
(* Local users and their regenerations.                                    *)

\* When the save fails the user is taken back.
CreateUser(u) ==
    /\ proc = "up" /\ u \notin born
    /\ \/ /\ born' = born \cup {u} /\ mem' = mem \cup {u} /\ disk' = mem'
          /\ waiting' = waiting + 1 /\ UNCHANGED <<faults, damaged>>
       \/ SaveFails /\ UNCHANGED <<born, mem, waiting>>
    /\ UNCHANGED <<installer, cloud, node, process, regen, conf, served, tunnels, doomed,
                   cleaned, orphan, corrupted, refused>>

RegenLists ==
    /\ waiting > 0 /\ regen = {} /\ waiting' = waiting - 1 /\ regen' = {mem}
    /\ UNCHANGED <<installer, cloud, node, process, mem, disk, conf, served, tunnels, faults,
                   history>>

RegenApplies ==
    /\ regen # {} /\ regen' = {}
    /\ \E users \in regen : Apply(users)
    /\ UNCHANGED <<installer, cloud, node, process, mem, disk, waiting, tunnels, born, doomed,
                   cleaned, orphan, corrupted, refused>>

-----------------------------------------------------------------------------
(* The environment.                                                        *)

\* Fifteen minutes pass before the token is used, or another machine uses it.
TokenLost ==
    /\ \E t \in 1 .. issued, state \in {"expired", "used"} :
           tok[t] = "fresh" /\ tok' = [tok EXCEPT ![t] = state]
    /\ UNCHANGED <<installer, backend, gen, node, process, plane, tunnels, faults, history>>

\* The owner deletes the node in the App.
Delete ==
    /\ backend = "active" /\ backend' = "deleted"
    /\ UNCHANGED <<installer, tok, gen, node, process, plane, tunnels, faults, history>>

\* The agent dies, or the machine does; systemd starts it again.
Crash ==
    /\ proc = "up" /\ Fault
    /\ proc' = "down" /\ Death
    /\ orphan' = (orphan \/ main = "save")
    /\ UNCHANGED <<installer, cloud, node, conf, born, doomed, cleaned, corrupted, damaged,
                   refused>>

\* The unit is enabled: a reboot starts also an agent that has exited with code 3.
Reboot ==
    /\ proc = "stopped" /\ proc' = "down"
    /\ UNCHANGED <<installer, cloud, node, env, main, run, secret, plane, tunnels, faults, history>>

\* node.json becomes unreadable.
Corrupt ==
    /\ Usable /\ Fault /\ node' = Half /\ corrupted' = TRUE
    /\ UNCHANGED <<installer, cloud, process, plane, tunnels, born, doomed, cleaned, orphan,
                   damaged, refused>>

-----------------------------------------------------------------------------

Agent ==
    \/ Boot \/ InitLocalMode \/ RegisterAnswered \/ RegisterLost \/ RegisterRejected
    \/ RegisterSaves \/ MainStart \/ MainExits
    \/ OpenTunnel \/ PollTerminal \/ handleRevoked
    \/ (\E u \in Users : CreateUser(u)) \/ RegenLists \/ RegenApplies

Next ==
    \/ Installer \/ Agent
    \/ \E s \in Sessions : Tunnels(ServeStep(s)) \/ Tunnels(PeerLeaves(s))
    \/ TokenLost \/ Delete \/ Crash \/ Reboot \/ Corrupt

Spec == Init /\ [][Next]_vars

\* The backend answers sooner or later, and goroutines run.
FairSpec ==
    /\ Spec
    /\ WF_vars(RegisterAnswered)
    /\ \A s \in Sessions : WF_vars(Tunnels(ServeStep(s)))

-----------------------------------------------------------------------------
(* Properties.                                                             *)

\* The backend has issued a secret since the installation began.
Bought == gen > before

\* install.sh reports success only when the machine was enrolled by this run of it,
\* not when it meets credentials of an earlier life; the secret in node.json is
\* the one the backend expects; and the token leaves the unit only for a readable
\* node.json: an agent whose node was neither deleted nor damaged has one of the two.
NeverStranded ==
    /\ inst = "ok" => Bought
    /\ backend = "active" /\ Usable => node = gen
    /\ proc \in {"up", "down"} /\ unit = 0 /\ ~Usable => cleaned \/ corrupted

\* An agent whose token has bought a secret in this installation gives up for good
\* because the token is used only if that secret was lost before it was saved, or was
\* saved and later removed or damaged: an enrolled agent never spends its token
\* again, wherever it died.  (A token that was used before, here or elsewhere, buys
\* nothing; the script has removed node.json by then.)
RefusedOnlyIfSpent == refused = "used" /\ Bought => orphan \/ cleaned \/ corrupted

Handling == run \in {"close", "clear", "stop", "clean", "quit", "done"}

\* Once node.json is removed because the node was deleted, none of the users it
\* had at that moment is in the Store, on disk or, when that agent has ended, in
\* sing-box, through all later deaths, restarts and reboots; unless a write failed.
DeletedNodeServesNobody ==
    cleaned /\ ~damaged => /\ (mem \cup disk) \cap doomed = {}
                           /\ ~Handling => served \cap doomed = {}

\* There are never more connections than Manager allows, although the check and
\* the registration are two critical sections with a dial between them.
AtMostMaxOpen == Cardinality(Open) <= MaxOpen

\* After CloseAll no connection is left that its watcher does not close: none is
\* out of the map before it is closed, and none is opened later.
RevocationReachesEveryTunnel ==
    run \in {"clear", "stop", "clean", "quit", "done"} => Open \subseteq cancelled

\* Registration ends, with credentials or with an exit (the loop is bounded: a
\* token expires, and that is terminal), provided that the backend answers.
RegistrationSettles == main = "register" ~> main # "register"

\* A session whose far end has left or fallen silent gives its place free.
DeadPeerFreesSlot ==
    \A s \in Sessions : s \in active \cap silent ~> s \notin active

=============================================================================
