----------------------------- MODULE RemoteAgent -----------------------------
(***************************************************************************)
(* The agent in remote and in hybrid mode: initRemoteMode, initHybridMode, *)
(* the timers of runMainLoop, syncAndApply, syncAndApplyHybrid,            *)
(* applyFromCache, config.Syncer, config.Cache and quota.Monitor.  The     *)
(* reports sent by the same loop are in module StatsReporter.              *)
(*                                                                         *)
(* One goroutine, the main loop, synchronises and checks expiry.  In       *)
(* hybrid mode every change of a local user starts a regenerateConfig      *)
(* goroutine beside it; regenMu orders those goroutines among themselves,  *)
(* not against the main loop.  Both write config.json and restart          *)
(* sing-box.  A step is a stretch of code that no other goroutine can      *)
(* observe half-way.  sing-box is reduced to what its Manager promises.    *)
(* Local users are a table whose changes are durable (module LocalUsers    *)
(* has the details, and the accounting).  Kicking a user's connections     *)
(* leaves no state behind: a user in the configuration connects again.     *)
(***************************************************************************)
EXTENDS Naturals, FiniteSets

CONSTANTS
    Users,       \* uuids
    Mortal,      \* users with an expire_at
    Versions,    \* versions of the server's user list
    Content,     \* Content[v]: the enabled users of version v
    NoVersion,   \* currentVersion before the first synchronisation
    NoFile,      \* a file that does not exist
    Torn,        \* a file that is not valid JSON
    MaxChanges,  \* bound: changes of local users
    MaxFaults    \* bound: failed writes and starts, crashes of sing-box and agent

ASSUME RemoteConstants ==
    /\ Mortal \subseteq Users
    /\ Content \in [Versions -> SUBSET Users]
    /\ NoVersion \notin Versions
    /\ NoFile \notin Versions /\ Torn \notin Versions \cup {NoFile}
    /\ \A S \in SUBSET Users : S # NoFile /\ S # Torn
    /\ MaxChanges \in Nat /\ MaxFaults \in Nat

VARIABLES
    mode,        \* ManagementMode
    pub,         \* the version the server publishes
    local,       \* Store.users
    expired,     \* users whose expire_at has passed
    changes,
    pc, phase,   \* where the main loop is, at start-up ("boot") or later ("run")
    resp, snap,  \* the version fetched, and the users of the configuration for it
    version,     \* Agent.currentVersion
    monitored,   \* Monitor.users
    kicked,      \* history: users for whom CheckAllUsers has called onRemove
    waiting,     \* regenerateConfig goroutines waiting for regenMu
    regen,       \* where the holder of regenMu is
    owner,       \* who holds regenMu: a goroutine, or the main loop at start-up
    rsnap,       \* the users of its configuration
    cache,       \* users.json: the version whose list it holds
    file,        \* config.json: its users
    overlap,     \* config.json was written during a write that has yet to finish
    sb, served,  \* sing-box: its state and the users of its configuration
    faults,
    damaged      \* history: a write failed or was cut short

outside == <<mode, pub, local, expired, changes>>
sync    == <<resp, snap, version>>
watch   == <<monitored, kicked>>
regens  == <<waiting, regen, owner, rsnap>>
config  == <<file, overlap>>
plane   == <<sb, served>>
failed  == <<faults, damaged>>
vars    == <<outside, pc, phase, sync, watch, regens, cache, config, plane, failed>>

LoopState == {"down", "fetch", "cache", "write", "check", "stop", "start", "fallback",
              "await", "launch", "idle", "halt", "exit"}
RegenState == {"idle", "write", "check", "stop", "start"}
LocalState == {"none", "on", "off"}
\* "backoff": crashed, Manager.monitor will restart it; "stray": left behind by
\* an agent that died.
SbState == {"off", "up", "backoff", "stray"}

\* One type invariant: every variable ranges over the values the code gives it.
TypeOK ==
    /\ mode \in {"remote", "hybrid"} /\ pub \in Versions
    /\ local \in [Users -> LocalState] /\ expired \subseteq Mortal /\ changes \in 0 .. MaxChanges
    /\ pc \in LoopState /\ phase \in {"boot", "run"}
    /\ resp \in Versions \cup {NoVersion} /\ snap \subseteq Users
    /\ version \in Versions \cup {NoVersion}
    /\ monitored \subseteq Users /\ kicked \subseteq Mortal
    /\ waiting \in Nat /\ regen \in RegenState
    /\ owner \in {"nobody", "goroutine", "loop"} /\ rsnap \subseteq Users
    /\ cache \in Versions \cup {NoFile, Torn}
    /\ file \in {NoFile, Torn} \cup SUBSET Users /\ overlap \in BOOLEAN
    /\ sb \in SbState /\ served \subseteq Users
    /\ faults \in 0 .. MaxFaults /\ damaged \in BOOLEAN

Init ==
    /\ mode \in {"remote", "hybrid"} /\ pub \in Versions
    /\ local = [u \in Users |-> "none"] /\ expired = {} /\ changes = 0
    /\ pc = "fetch" /\ phase = "boot" /\ resp = NoVersion /\ snap = {} /\ version = NoVersion
    /\ monitored = {} /\ kicked = {}
    /\ waiting = 0 /\ regen = "idle" /\ owner = "nobody" /\ rsnap = {}
    /\ cache = NoFile /\ file = NoFile /\ overlap = FALSE
    /\ sb = "off" /\ served = {} /\ faults = 0 /\ damaged = FALSE

Alive == pc # "down"

\* A fault happens, within the bound.
Fault == faults < MaxFaults /\ faults' = faults + 1

-----------------------------------------------------------------------------
(* config.json and sing-box.                                               *)

\* WriteToFile truncates and writes in place.  If another write began before this
\* one ended (both were under way) the later one may leave a mixture.
WriteOk(users, other) ==
    /\ file' \in IF overlap THEN {users, Torn} ELSE {users}
    /\ overlap' = (other /\ ~overlap)
    /\ UNCHANGED failed

WriteFails(other) ==
    /\ Fault /\ damaged' = TRUE
    /\ file' \in {file, Torn} /\ overlap' = (other /\ ~overlap)

\* A new process reads config.json; one that cannot parse it exits at once.
Launch == IF file = Torn THEN sb' = "backoff" /\ served' = {} ELSE sb' = "up" /\ served' = file

\* Manager.Start succeeds; strays are reaped.
StartOk == sb # "up" /\ file # NoFile /\ Launch /\ UNCHANGED faults

\* It is refused when running or without config.json; strays may have been reaped
\* before it failed.
StartFails ==
    \/ (sb = "up" \/ file = NoFile) /\ UNCHANGED <<plane, faults>>
    \/ /\ sb # "up" /\ file # NoFile /\ Fault
       /\ UNCHANGED plane \/ (sb = "stray" /\ sb' = "off" /\ served' = {})

\* Manager.Stop, also when the process has just crashed; strays are not its own.
Stop == IF sb = "stray" THEN UNCHANGED plane ELSE sb' = "off" /\ served' = {}

-----------------------------------------------------------------------------
(* Synchronisation by the main loop.                                       *)

\* Return of syncAndApply or syncAndApplyHybrid; only start-up looks at the error.
SyncReturns(ok) ==
    /\ pc' = IF phase = "run" THEN "idle" ELSE IF ok THEN "launch" ELSE "fallback"
    /\ resp' = NoVersion /\ snap' = {}

\* The sync timer.
SyncBegin ==
    /\ pc = "idle" /\ pc' = "fetch"
    /\ UNCHANGED <<outside, phase, sync, watch, regens, cache, config, plane, failed>>

\* A heartbeat answered with reload_users; a kick_users list leaves no state, and
\* without an answer nothing happens.
Heartbeat ==
    /\ pc = "idle" /\ pc' = "fetch"
    /\ UNCHANGED <<outside, phase, sync, watch, regens, cache, config, plane, failed>>

\* FetchUsers gets no answer, or an error.
FetchFails ==
    /\ pc = "fetch" /\ SyncReturns(FALSE)
    /\ UNCHANGED <<outside, phase, version, watch, regens, cache, config, plane, failed>>

\* The enabled users of version v merged with the local ones, which take precedence.
Merged(v) == {u \in Users : IF local[u] = "none" THEN u \in Content[v] ELSE local[u] = "on"}

\* The enabled users of the list to apply.
Listed(v) == IF mode = "hybrid" THEN Merged(v) ELSE Content[v]

\* Only remote mode skips a version already applied.
sameVersion(v) == mode = "remote" /\ version = v

\* Monitor.UpdateUsers: the enabled users of the list, expired or not, are watched.
UpdateUsers(users) == monitored' = users /\ UNCHANGED kicked

\* FetchUsers, the merge with the local users, and Monitor.UpdateUsers.
FetchUsers ==
    /\ pc = "fetch"
    /\ IF sameVersion(pub)
       THEN SyncReturns(TRUE) /\ UNCHANGED watch
       ELSE pc' = "cache" /\ resp' = pub /\ snap' = Listed(pub) /\ UpdateUsers(snap')
    /\ UNCHANGED <<outside, phase, version, regens, cache, config, plane, failed>>

\* Mutated: the list is not saved.
SyncCacheSkipped ==
    /\ pc = "cache" /\ pc' = "write" /\ snap' = snap \ expired
    /\ cache' = IF cache = NoFile THEN resp ELSE cache
    /\ UNCHANGED <<outside, phase, resp, version, watch, regens, config, plane, failed>>

\* Cache.SaveUsers, whose failure is only logged, and Generate.
SyncCache ==
    /\ pc = "cache" /\ pc' = "write" /\ snap' = snap \ expired
    /\ \/ cache' = resp /\ UNCHANGED failed
       \/ Fault /\ cache' \in {cache, Torn} /\ damaged' = TRUE
    /\ UNCHANGED <<outside, phase, resp, version, watch, regens, config, plane>>

\* Mutated: the version is recorded although config.json was not written.
SyncWriteRecordsFirst ==
    /\ pc = "write" /\ version' = resp
    /\ \/ WriteOk(snap, regen = "write") /\ pc' = "check" /\ UNCHANGED <<resp, snap>>
       \/ WriteFails(regen = "write") /\ SyncReturns(FALSE)
    /\ UNCHANGED <<outside, phase, watch, regens, cache, plane>>

\* WriteToFile; only a written version is recorded.
SyncWrite ==
    /\ pc = "write"
    /\ \/ /\ WriteOk(snap, regen = "write") /\ version' = resp /\ pc' = "check"
          /\ UNCHANGED <<resp, snap>>
       \/ WriteFails(regen = "write") /\ SyncReturns(FALSE) /\ UNCHANGED version
    /\ UNCHANGED <<outside, phase, watch, regens, cache, plane>>

\* IsRunning decides whether to reload; a sing-box that is down stays down.
SyncCheck ==
    /\ pc = "check"
    /\ IF sb = "up" THEN pc' = "stop" /\ UNCHANGED <<resp, snap>> ELSE SyncReturns(TRUE)
    /\ UNCHANGED <<outside, phase, version, watch, regens, cache, config, plane, failed>>

\* Reload: an error if sing-box is found down by now, else Stop.
SyncStop ==
    /\ pc = "stop"
    /\ \/ sb # "up" /\ SyncReturns(FALSE) /\ UNCHANGED plane
       \/ Stop /\ pc' = "start" /\ UNCHANGED <<resp, snap>>
    /\ UNCHANGED <<outside, phase, version, watch, regens, cache, config, failed>>

\* Reload: Start.
SyncStart ==
    /\ pc = "start"
    /\ (StartOk /\ SyncReturns(TRUE)) \/ (StartFails /\ SyncReturns(FALSE))
    /\ UNCHANGED <<outside, phase, version, watch, regens, cache, config, damaged>>

-----------------------------------------------------------------------------
(* Start-up.                                                               *)

\* Remote mode: applyFromCache.  A missing or unreadable users.json changes nothing.
applyFromCache ==
    /\ pc = "fallback" /\ mode = "remote" /\ pc' = "launch"
    /\ IF cache \notin Versions
       THEN UNCHANGED <<watch, config, failed>>
       ELSE /\ UpdateUsers(Content[cache])
            /\ WriteOk(Content[cache] \ expired, FALSE) \/ WriteFails(FALSE)
    /\ UNCHANGED <<outside, phase, sync, regens, cache, plane>>

\* Run starts sing-box and enters the main loop.
BootLaunch ==
    /\ pc = "launch" /\ pc' = "idle" /\ phase' = "run"
    /\ StartOk \/ StartFails
    /\ UNCHANGED <<outside, sync, watch, regens, cache, config, damaged>>

-----------------------------------------------------------------------------
(* regenerateConfig, by a goroutine of a local change or, when the first   *)
(* synchronisation of hybrid mode failed, by the main loop itself.         *)

LocalOn == {u \in Users : local[u] = "on"}

\* ListUsers, UpdateUsers and Generate.
RegenList(who) ==
    /\ regen = "idle" /\ regen' = "write" /\ owner' = who
    /\ rsnap' = LocalOn \ expired /\ UpdateUsers(LocalOn)

RegenLock ==
    /\ Alive /\ waiting > 0 /\ waiting' = waiting - 1 /\ RegenList("goroutine")
    /\ UNCHANGED <<outside, pc, phase, sync, cache, config, plane, failed>>

BootRegen ==
    /\ pc = "fallback" /\ mode = "hybrid" /\ pc' = "await" /\ RegenList("loop")
    /\ UNCHANGED <<outside, phase, sync, waiting, cache, config, plane, failed>>

\* Unlocking regenMu.
RegenReturns ==
    /\ regen' = "idle" /\ owner' = "nobody" /\ rsnap' = {}
    /\ pc' = IF owner = "loop" THEN "launch" ELSE pc

RegenWrite ==
    /\ regen = "write"
    /\ \/ WriteOk(rsnap, pc = "write") /\ regen' = "check" /\ UNCHANGED <<owner, rsnap, pc>>
       \/ WriteFails(pc = "write") /\ RegenReturns
    /\ UNCHANGED <<outside, phase, sync, watch, waiting, cache, plane>>

\* Mutated: a sing-box that is already running is left alone.
RegenCheckLazy ==
    /\ regen = "check"
    /\ IF sb = "up" THEN RegenReturns ELSE regen' = "start" /\ UNCHANGED <<owner, rsnap, pc>>
    /\ UNCHANGED <<outside, phase, sync, watch, waiting, cache, config, plane, failed>>

\* Reload if running, else Start.
RegenCheck ==
    /\ regen = "check" /\ regen' = IF sb = "up" THEN "stop" ELSE "start"
    /\ UNCHANGED <<outside, pc, phase, sync, watch, waiting, owner, rsnap, cache, config, plane,
                   failed>>

RegenStop ==
    /\ regen = "stop"
    /\ \/ sb # "up" /\ RegenReturns /\ UNCHANGED plane
       \/ Stop /\ regen' = "start" /\ UNCHANGED <<owner, rsnap, pc>>
    /\ UNCHANGED <<outside, phase, sync, watch, waiting, cache, config, failed>>

RegenStart ==
    /\ regen = "start" /\ RegenReturns
    /\ StartOk \/ StartFails
    /\ UNCHANGED <<outside, phase, sync, watch, waiting, cache, config, damaged>>

-----------------------------------------------------------------------------
(* The quota timer, the end of the process and its restart.                *)

\* Mutated: an expired user is dropped without calling onRemove.
CheckAllUsersSilent ==
    /\ pc = "idle" /\ monitored' = monitored \ expired
    /\ UNCHANGED <<outside, pc, phase, sync, kicked, regens, cache, config, plane, failed>>

\* Monitor.CheckAllUsers: expired users are dropped and their connections kicked.
CheckAllUsers ==
    /\ pc = "idle"
    /\ monitored' = monitored \ expired /\ kicked' = kicked \cup (monitored \cap expired)
    /\ UNCHANGED <<outside, pc, phase, sync, regens, cache, config, plane, failed>>

\* ctx.Done, after the last report.
Shutdown ==
    /\ pc = "idle" /\ pc' = "halt"
    /\ UNCHANGED <<outside, phase, sync, watch, regens, cache, config, plane, failed>>

\* manager.Stop, then main returns; a regeneration under way may still run.
Halt ==
    /\ pc = "halt" /\ pc' = "exit" /\ Stop
    /\ UNCHANGED <<outside, phase, sync, watch, regens, cache, config, failed>>

\* The memory of the agent is gone; a file being written may be cut short; sing-box
\* may survive.
Dies ==
    /\ pc' = "down" /\ phase' = "boot" /\ resp' = NoVersion /\ snap' = {} /\ version' = NoVersion
    /\ monitored' = {} /\ waiting' = 0 /\ regen' = "idle" /\ owner' = "nobody" /\ rsnap' = {}
    /\ cache' \in IF pc = "cache" THEN {cache, Torn} ELSE {cache}
    /\ file' \in IF pc \in {"write", "fallback"} \/ regen = "write" THEN {file, Torn} ELSE {file}
    /\ overlap' = FALSE /\ damaged' = (damaged \/ cache' # cache \/ file' # file)
    /\ \/ sb \in {"up", "stray"} /\ sb' = "stray" /\ UNCHANGED served
       \/ sb' = "off" /\ served' = {}
    /\ UNCHANGED <<outside, kicked>>

AgentCrash == Alive /\ pc # "exit" /\ Fault /\ Dies

Exit == pc = "exit" /\ Dies /\ UNCHANGED faults

\* Started again by systemd, Docker or the administrator; the result of register is
\* only logged.
Boot ==
    /\ pc = "down" /\ pc' = "fetch"
    /\ UNCHANGED <<outside, phase, sync, watch, regens, cache, config, plane, failed>>

-----------------------------------------------------------------------------
(* The environment.                                                        *)

\* The server publishes another list, or an earlier one again.
Publish ==
    /\ pub' \in Versions \ {pub}
    /\ UNCHANGED <<mode, local, expired, changes, pc, phase, sync, watch, regens, cache, config,
                   plane, failed>>

\* The App changes a local user, or his traffic crosses his limit: go onChange().
LocalChange(u, state) ==
    /\ mode = "hybrid" /\ Alive /\ changes < MaxChanges /\ local[u] # state
    /\ local' = [local EXCEPT ![u] = state] /\ changes' = changes + 1
    /\ waiting' = waiting + 1
    /\ UNCHANGED <<mode, pub, expired, pc, phase, sync, watch, regen, owner, rsnap, cache, config,
                   plane, failed>>

Expire(u) ==
    /\ u \in Mortal \ expired /\ expired' = expired \cup {u}
    /\ UNCHANGED <<mode, pub, local, changes, pc, phase, sync, watch, regens, cache, config,
                   plane, failed>>

SingboxCrash ==
    /\ sb = "up" /\ Fault /\ sb' = "backoff" /\ served' = {}
    /\ UNCHANGED <<outside, pc, phase, sync, watch, regens, cache, config, damaged>>

\* The Manager's monitor restarts sing-box, or gives up.
MonitorRestart ==
    /\ Alive /\ sb = "backoff"
    /\ Launch \/ (sb' = "off" /\ UNCHANGED served)
    /\ UNCHANGED <<outside, pc, phase, sync, watch, regens, cache, config, failed>>

-----------------------------------------------------------------------------

Sync == \/ SyncBegin \/ Heartbeat \/ FetchFails \/ FetchUsers \/ SyncCache \/ SyncWrite
        \/ SyncCheck \/ SyncStop \/ SyncStart

Regenerate == RegenLock \/ RegenWrite \/ RegenCheck \/ RegenStop \/ RegenStart

Lifecycle == applyFromCache \/ BootRegen \/ BootLaunch \/ Shutdown \/ Halt \/ Exit \/ Boot

Environment ==
    \/ Publish \/ SingboxCrash \/ MonitorRestart \/ AgentCrash
    \/ \E u \in Users : Expire(u) \/ \E state \in LocalState : LocalChange(u, state)

Next == Sync \/ Regenerate \/ CheckAllUsers \/ Lifecycle \/ Environment

Spec == Init /\ [][Next]_vars

-----------------------------------------------------------------------------
(* Properties.                                                             *)

\* No goroutine is between its write of config.json and its restart of sing-box.
NobodyApplies == pc \notin {"check", "stop"} /\ regen \notin {"check", "stop"}

\* A running sing-box serves exactly config.json, unless somebody is about to
\* restart it or the file is no valid JSON: although the main loop and
\* regenerateConfig share no lock, neither can leave the other's write unapplied.
ServesWhatIsWritten ==
    sb = "up" /\ NobodyApplies => file \in {served, Torn}

\* Up to expiry, sing-box serves version v.
ServesVersion(v) == served \subseteq Content[v] /\ Content[v] \ expired \subseteq served

\* Remote mode: between synchronisations a running sing-box serves the recorded
\* version, whatever failed: syncAndApply never skips a version as unchanged that
\* was not applied.
RecordedIsServed ==
    mode = "remote" /\ pc = "idle" /\ sb = "up" /\ version \in Versions => ServesVersion(version)

\* Remote mode: while no write has failed, a running sing-box serves the last list
\* fetched, also after a restart without the server (initRemoteMode's use of the
\* cache).
OfflineServesCache ==
    mode = "remote" /\ pc = "idle" /\ sb = "up" /\ ~damaged /\ cache \in Versions =>
        ServesVersion(cache)

\* Remote mode: while no write has failed, the Monitor watches every user sing-box
\* serves, or has called onRemove for him.
ServedIsWatched ==
    mode = "remote" /\ pc = "idle" /\ sb = "up" /\ ~damaged => served \subseteq monitored \cup kicked

=============================================================================
