-------------------------- MODULE RemoteAgentProofs --------------------------
(***************************************************************************)
(* Proofs about RemoteAgent, for any users, versions, changes and faults.  *)
(***************************************************************************)
EXTENDS RemoteAgent, TLAPS

Remote == mode = "remote"

\* Where the main loop and a regeneration can be at the same time.  In remote mode
\* there is no regeneration, and before the main loop begins no sing-box of this
\* process and no version on record.
Positions ==
    /\ pub \in Versions /\ pc \in LoopState
    /\ owner = "loop" => pc = "await"
    /\ phase = "run" => pc \notin {"down", "fallback", "launch", "await"}
    /\ phase # "run" => pc \notin {"idle", "halt", "exit"}
    /\ Remote => regen = "idle" /\ waiting = 0 /\ owner = "nobody" /\ ~overlap /\ pc # "await"
    /\ Remote /\ phase # "run" => sb \in {"off", "stray"} /\ pc \notin {"stop", "start"}
    /\ Remote /\ pc \in {"down", "fetch", "cache", "write", "fallback"} /\ phase # "run" =>
         version = NoVersion

\* Up to expiry, S is the list of version v.
IsList(S, v) == S \subseteq Content[v] /\ Content[v] \ expired \subseteq S

\* The list in hand is the one of the version in hand.
InHand ==
    /\ pc \in {"cache", "write"} => resp \in Versions
    /\ Remote /\ pc = "cache" => snap = Content[resp]
    /\ Remote /\ pc = "write" => IsList(snap, resp)

\* The version on record is in config.json, unless that is no valid JSON, and in
\* sing-box, unless the main loop is about to restart it.
Recorded ==
    Remote /\ version \in Versions =>
        /\ file = Torn \/ IsList(file, version)
        /\ sb = "up" /\ pc \notin {"check", "stop"} => IsList(served, version)

\* The main loop is done with the last list it fetched, after start-up.
Applied == pc \in {"check", "stop", "start", "launch", "idle", "halt", "exit"}
           \/ (phase = "run" /\ pc \in {"fetch", "cache"})

\* As long as no write fails users.json is one list ahead of config.json at most.
CacheLeads ==
    Remote /\ ~damaged =>
        /\ cache \notin Versions => file = NoFile /\ sb \in {"off", "stray"}
        /\ pc = "write" => cache = resp
        /\ cache \in Versions /\ Applied => IsList(file, cache)
        /\ cache \in Versions /\ sb = "up" /\ pc \notin {"write", "check", "stop"} =>
             IsList(served, cache)

Known == monitored \cup kicked

\* The users of the list in hand, of config.json and of sing-box are watched.
Watched ==
    Remote /\ ~damaged =>
        /\ pc \in {"cache", "write"} => snap \subseteq Known
        /\ cache \in Versions /\ Applied /\ pc # "cache" => file \subseteq Known
        /\ sb = "up" /\ pc \notin {"cache", "write", "check", "stop"} => served \subseteq Known

RInv == InHand /\ Recorded /\ CacheLeads /\ Watched

Inv == Positions /\ ServesWhatIsWritten /\ RInv

-----------------------------------------------------------------------------
(* Positions.                                                              *)

\* Synchronisation.
LEMMA SyncKeepsP ==
    ASSUME Positions, Sync
    PROVE  Positions'
<1> USE RemoteConstants DEF Positions, LoopState, Remote, outside, sync, watch, regens, config, plane, failed,
        SyncReturns
<1>1. CASE SyncBegin \/ Heartbeat
  BY <1>1 DEF SyncBegin, Heartbeat
<1>2. CASE FetchFails
  BY <1>2 DEF FetchFails
<1>3. CASE FetchUsers
  BY <1>3 DEF FetchUsers, sameVersion
<1>4. CASE SyncCache
  BY <1>4 DEF SyncCache
<1>5. CASE SyncWrite
  BY <1>5 DEF SyncWrite, WriteOk, WriteFails
<1>6. CASE SyncCheck
  BY <1>6 DEF SyncCheck
<1>7. CASE SyncStop
  BY <1>7 DEF SyncStop, Stop
<1>8. CASE SyncStart
  BY <1>8 DEF SyncStart, StartOk, StartFails, Launch
<1> QED
  BY <1>1, <1>2, <1>3, <1>4, <1>5, <1>6, <1>7, <1>8 DEF Sync

\* Regenerations, of which remote mode has none.
LEMMA RegenKeepsP ==
    ASSUME Positions, Regenerate
    PROVE  Positions'
<1> USE DEF Positions, LoopState, Remote, outside, sync, watch, config, plane, failed, RegenReturns
<1>1. CASE RegenLock
  BY <1>1 DEF RegenLock, RegenList
<1>2. CASE RegenWrite
  BY <1>2 DEF RegenWrite, WriteOk, WriteFails
<1>3. CASE RegenCheck
  BY <1>3 DEF RegenCheck
<1>4. CASE RegenStop
  BY <1>4 DEF RegenStop, Stop
<1>5. CASE RegenStart
  BY <1>5 DEF RegenStart
<1> QED
  BY <1>1, <1>2, <1>3, <1>4, <1>5 DEF Regenerate

\* Start-up, the end of the process and its restart.
LEMMA LifecycleKeepsP ==
    ASSUME Positions, Lifecycle \/ AgentCrash \/ CheckAllUsers
    PROVE  Positions'
<1> USE DEF Positions, LoopState, Remote, outside, sync, watch, regens, config, plane, failed
<1>1. CASE applyFromCache
  BY <1>1 DEF applyFromCache, WriteOk, WriteFails
<1>2. CASE BootRegen
  BY <1>2 DEF BootRegen, RegenList
<1>3. CASE BootLaunch
  BY <1>3 DEF BootLaunch
<1>4. CASE Shutdown \/ Halt
  BY <1>4 DEF Shutdown, Halt
<1>5. CASE Exit \/ AgentCrash
  BY <1>5 DEF Exit, AgentCrash, Dies
<1>6. CASE Boot
  BY <1>6 DEF Boot
<1>7. CASE CheckAllUsers
  BY <1>7 DEF CheckAllUsers
<1> QED
  BY <1>1, <1>2, <1>3, <1>4, <1>5, <1>6, <1>7 DEF Lifecycle

\* The server, local users, time and sing-box.
LEMMA EnvironmentKeepsP ==
    ASSUME Positions,
           \/ Publish \/ SingboxCrash \/ MonitorRestart \/ UNCHANGED vars
           \/ \E u \in Users : Expire(u) \/ \E state \in LocalState : LocalChange(u, state)
    PROVE  Positions'
<1> USE DEF Positions, LoopState, Remote, outside, sync, watch, regens, config, plane, failed
<1>1. CASE Publish
  BY <1>1 DEF Publish
<1>2. CASE SingboxCrash
  BY <1>2 DEF SingboxCrash
<1>3. CASE MonitorRestart
  BY <1>3 DEF MonitorRestart
<1>4. ASSUME NEW u \in Users, Expire(u)
      PROVE  Positions'
  BY <1>4 DEF Expire
<1>5. ASSUME NEW u \in Users, NEW state, LocalChange(u, state)
      PROVE  Positions'
  BY <1>5 DEF LocalChange
<1>6. CASE UNCHANGED vars
  BY <1>6 DEF vars
<1> QED
  BY <1>1, <1>2, <1>3, <1>4, <1>5, <1>6

-----------------------------------------------------------------------------
(* config.json and sing-box.                                               *)

\* Both goroutines' steps that write config.json or restart sing-box.
LEMMA SyncKeepsW ==
    ASSUME Positions, ServesWhatIsWritten, Sync
    PROVE  ServesWhatIsWritten'
<1> USE DEF ServesWhatIsWritten, NobodyApplies, outside, sync, watch, regens, config, plane, failed,
        SyncReturns
<1>1. CASE SyncBegin \/ Heartbeat \/ FetchFails
  BY <1>1 DEF SyncBegin, Heartbeat, FetchFails
<1>2. CASE FetchUsers
  BY <1>2 DEF FetchUsers
<1>3. CASE SyncCache
  BY <1>3 DEF SyncCache
<1>4. CASE SyncWrite
  BY <1>4 DEF SyncWrite, WriteOk, WriteFails
<1>5. CASE SyncCheck
  BY <1>5 DEF SyncCheck
<1>6. CASE SyncStop
  BY <1>6 DEF SyncStop, Stop
<1>7. CASE SyncStart
  BY <1>7 DEF SyncStart, StartOk, StartFails, Launch
<1> QED
  BY <1>1, <1>2, <1>3, <1>4, <1>5, <1>6, <1>7 DEF Sync

\* A regeneration restarts sing-box after its write, or finds it down.
LEMMA RegenKeepsW ==
    ASSUME Positions, ServesWhatIsWritten, Regenerate
    PROVE  ServesWhatIsWritten'
<1> USE DEF Positions, LoopState, ServesWhatIsWritten, NobodyApplies, outside, sync, watch, config, plane, failed,
        RegenReturns
<1>1. CASE RegenLock
  BY <1>1 DEF RegenLock, RegenList
<1>2. CASE RegenWrite
  BY <1>2 DEF RegenWrite, WriteOk, WriteFails
<1>3. CASE RegenCheck
  BY <1>3 DEF RegenCheck
<1>4. CASE RegenStop
  BY <1>4 DEF RegenStop, Stop
<1>5. CASE RegenStart
  BY <1>5 DEF RegenStart, StartOk, StartFails, Launch
<1> QED
  BY <1>1, <1>2, <1>3, <1>4, <1>5 DEF Regenerate

\* Start-up writes config.json only while no sing-box of this process runs.
LEMMA LifecycleKeepsW ==
    ASSUME Positions, ServesWhatIsWritten, Lifecycle \/ AgentCrash \/ CheckAllUsers
    PROVE  ServesWhatIsWritten'
<1> USE DEF ServesWhatIsWritten, NobodyApplies, outside, sync, watch, regens, config, plane, failed
<1>1. CASE applyFromCache
  BY <1>1 DEF applyFromCache, Positions, Remote
<1>2. CASE BootRegen
  BY <1>2 DEF BootRegen, RegenList
<1>3. CASE BootLaunch
  BY <1>3 DEF BootLaunch, StartOk, StartFails, Launch
<1>4. CASE Shutdown \/ Halt
  BY <1>4 DEF Shutdown, Halt, Stop
<1>5. CASE Exit \/ AgentCrash
  BY <1>5 DEF Exit, AgentCrash, Dies
<1>6. CASE Boot
  BY <1>6 DEF Boot
<1>7. CASE CheckAllUsers
  BY <1>7 DEF CheckAllUsers
<1> QED
  BY <1>1, <1>2, <1>3, <1>4, <1>5, <1>6, <1>7 DEF Lifecycle

\* The Manager's monitor reads what is written.
LEMMA EnvironmentKeepsW ==
    ASSUME Positions, ServesWhatIsWritten,
           \/ Publish \/ SingboxCrash \/ MonitorRestart \/ UNCHANGED vars
           \/ \E u \in Users : Expire(u) \/ \E state \in LocalState : LocalChange(u, state)
    PROVE  ServesWhatIsWritten'
<1> USE DEF ServesWhatIsWritten, NobodyApplies, outside, sync, watch, regens, config, plane, failed
<1>1. CASE Publish
  BY <1>1 DEF Publish
<1>2. CASE SingboxCrash
  BY <1>2 DEF SingboxCrash
<1>3. CASE MonitorRestart
  BY <1>3 DEF MonitorRestart, Launch
<1>4. ASSUME NEW u \in Users, Expire(u)
      PROVE  ServesWhatIsWritten'
  BY <1>4 DEF Expire
<1>5. ASSUME NEW u \in Users, NEW state, LocalChange(u, state)
      PROVE  ServesWhatIsWritten'
  BY <1>5 DEF LocalChange
<1>6. CASE UNCHANGED vars
  BY <1>6 DEF vars
<1> QED
  BY <1>1, <1>2, <1>3, <1>4, <1>5, <1>6

-----------------------------------------------------------------------------
(* The lists of remote mode.                                               *)

\* Synchronisation.
LEMMA SyncKeepsR ==
    ASSUME Positions, RInv, Sync
    PROVE  RInv'
<1> USE RemoteConstants DEF Positions, LoopState, RInv, InHand, Recorded, CacheLeads, Watched, Remote, IsList,
        Applied, Known, outside, sync, watch, regens, config, plane, failed, SyncReturns
<1>1. CASE SyncBegin \/ Heartbeat
  BY <1>1 DEF SyncBegin, Heartbeat
<1>2. CASE FetchFails
  BY <1>2 DEF FetchFails
<1>3. CASE FetchUsers
  BY <1>3 DEF FetchUsers, sameVersion, Listed, UpdateUsers
<1>4. CASE SyncCache
  BY <1>4 DEF SyncCache
<1>5. CASE SyncWrite
  BY <1>5 DEF SyncWrite, WriteOk, WriteFails
<1>6. CASE SyncCheck
  BY <1>6 DEF SyncCheck
<1>7. CASE SyncStop
  BY <1>7 DEF SyncStop, Stop
<1>8. CASE SyncStart
  BY <1>8 DEF SyncStart, StartOk, StartFails, Launch
<1> QED
  BY <1>1, <1>2, <1>3, <1>4, <1>5, <1>6, <1>7, <1>8 DEF Sync

\* Regenerations have no part in remote mode.
LEMMA RegenKeepsR ==
    ASSUME Positions, RInv, Regenerate
    PROVE  RInv'
<1> USE DEF Positions, LoopState, RInv, InHand, Recorded, CacheLeads, Watched, Remote, outside, sync
<1>1. ~Remote /\ ~Remote'
  BY DEF Regenerate, RegenLock, RegenWrite, RegenCheck, RegenStop, RegenStart
<1>2. UNCHANGED <<resp, pc>> \/ (UNCHANGED resp /\ pc' = "launch")
  BY DEF Regenerate, RegenLock, RegenWrite, RegenCheck, RegenStop, RegenStart, RegenReturns
<1> QED
  BY <1>1, <1>2

\* Start-up, the end of the process and its restart.
LEMMA LifecycleKeepsR ==
    ASSUME Positions, RInv, Lifecycle \/ AgentCrash \/ CheckAllUsers
    PROVE  RInv'
<1> USE RemoteConstants DEF Positions, LoopState, RInv, InHand, Recorded, CacheLeads, Watched, Remote, IsList,
        Applied, Known, outside, sync, watch, regens, config, plane, failed
<1>1. CASE applyFromCache
  BY <1>1 DEF applyFromCache, UpdateUsers, WriteOk, WriteFails
<1>2. CASE BootRegen
  BY <1>2 DEF BootRegen
<1>3. CASE BootLaunch
  BY <1>3 DEF BootLaunch, StartOk, StartFails, Launch
<1>4. CASE Shutdown \/ Halt
  BY <1>4 DEF Shutdown, Halt, Stop
<1>5. CASE Exit \/ AgentCrash
  BY <1>5 DEF Exit, AgentCrash, Dies
<1>6. CASE Boot
  BY <1>6 DEF Boot
<1>7. CASE CheckAllUsers
  BY <1>7 DEF CheckAllUsers
<1> QED
  BY <1>1, <1>2, <1>3, <1>4, <1>5, <1>6, <1>7 DEF Lifecycle

\* The server, local users, time and sing-box: expiry only adds to what may be missing.
LEMMA EnvironmentKeepsR ==
    ASSUME Positions, RInv,
           \/ Publish \/ SingboxCrash \/ MonitorRestart \/ UNCHANGED vars
           \/ \E u \in Users : Expire(u) \/ \E state \in LocalState : LocalChange(u, state)
    PROVE  RInv'
<1> USE DEF Positions, LoopState, RInv, InHand, Recorded, CacheLeads, Watched, Remote, IsList, Applied, Known,
        outside, sync, watch, regens, config, plane, failed
<1>1. CASE Publish
  BY <1>1 DEF Publish
<1>2. CASE SingboxCrash
  BY <1>2 DEF SingboxCrash
<1>3. CASE MonitorRestart
  BY <1>3 DEF MonitorRestart, Launch
<1>4. ASSUME NEW u \in Users, Expire(u)
      PROVE  RInv'
  BY <1>4 DEF Expire
<1>5. ASSUME NEW u \in Users, NEW state, LocalChange(u, state)
      PROVE  RInv'
  BY <1>5 DEF LocalChange
<1>6. CASE UNCHANGED vars
  BY <1>6 DEF vars
<1> QED
  BY <1>1, <1>2, <1>3, <1>4, <1>5, <1>6

-----------------------------------------------------------------------------

\* An agent that starts for the first time.
LEMMA AgentBegins == Init => Inv
BY RemoteConstants DEF Init, Inv, Positions, LoopState, ServesWhatIsWritten, RInv, InHand, Recorded, CacheLeads,
   Watched, Remote, Applied

\* One step.
LEMMA AgentKept == Inv /\ [Next]_vars => Inv'
BY SyncKeepsP, SyncKeepsW, SyncKeepsR, RegenKeepsP, RegenKeepsW, RegenKeepsR, LifecycleKeepsP,
   LifecycleKeepsW, LifecycleKeepsR, EnvironmentKeepsP, EnvironmentKeepsW, EnvironmentKeepsR
   DEF Inv, Next, Environment

\* In both modes a running sing-box serves config.json unless somebody is about to
\* restart it, although its two writers share no lock.
THEOREM WrittenIsServed == Spec => []ServesWhatIsWritten
<1>1. Inv => ServesWhatIsWritten
  BY DEF Inv
<1> QED
  BY <1>1, AgentBegins, AgentKept, PTL DEF Spec

\* A version skipped as unchanged is the one served.
THEOREM RecordIsTrue == Spec => []RecordedIsServed
<1>1. Inv => RecordedIsServed
  BY DEF Inv, RInv, Recorded, RecordedIsServed, ServesVersion, IsList, Remote
<1> QED
  BY <1>1, AgentBegins, AgentKept, PTL DEF Spec

\* Without the server the last list fetched is served, through any number of deaths.
THEOREM CacheIsServed == Spec => []OfflineServesCache
<1>1. Inv => OfflineServesCache
  BY DEF Inv, RInv, CacheLeads, OfflineServesCache, ServesVersion, IsList, Remote
<1> QED
  BY <1>1, AgentBegins, AgentKept, PTL DEF Spec

\* Nobody is served whose expiry the Monitor does not watch.
THEOREM ServedUsersWatched == Spec => []ServedIsWatched
<1>1. Inv => ServedIsWatched
  BY DEF Inv, RInv, Watched, Known, ServedIsWatched, Remote
<1> QED
  BY <1>1, AgentBegins, AgentKept, PTL DEF Spec

-----------------------------------------------------------------------------
(* Types.                                                                  *)

\* The variables of the world outside, of the main loop and of regenerations.
LoopTypes ==
    /\ mode \in {"remote", "hybrid"} /\ pub \in Versions
    /\ local \in [Users -> LocalState] /\ expired \subseteq Mortal
    /\ pc \in LoopState /\ phase \in {"boot", "run"}
    /\ resp \in Versions \cup {NoVersion} /\ (pc \in {"cache", "write"} => resp \in Versions)
    /\ snap \subseteq Users /\ version \in Versions \cup {NoVersion}
    /\ monitored \subseteq Users /\ kicked \subseteq Mortal
    /\ regen \in RegenState /\ owner \in {"nobody", "goroutine", "loop"} /\ rsnap \subseteq Users

\* The files and sing-box.  The Manager's monitor launches nothing without config.json:
\* what has run once has had one, and nobody removes it.
PlaneTypes ==
    /\ cache \in Versions \cup {NoFile, Torn}
    /\ file \in {NoFile, Torn} \cup SUBSET Users
    /\ sb \in SbState /\ served \subseteq Users
    /\ sb \in {"up", "backoff"} => file # NoFile

\* The counters.
Counts == waiting \in Nat /\ changes \in 0 .. MaxChanges /\ faults \in 0 .. MaxFaults

\* The Booleans.
Flags == overlap \in BOOLEAN /\ damaged \in BOOLEAN

LEMMA FlagsKept == ASSUME Flags, [Next]_vars PROVE Flags'
<1> USE DEF Flags, failed, config
<1>1. CASE Sync
  BY <1>1 DEF Sync, SyncBegin, Heartbeat, FetchFails, FetchUsers, SyncCache, SyncWrite, SyncCheck,
              SyncStop, SyncStart, WriteOk, WriteFails
<1>2. CASE Regenerate \/ CheckAllUsers
  BY <1>2 DEF Regenerate, CheckAllUsers, RegenLock, RegenWrite, RegenCheck, RegenStop, RegenStart,
              WriteOk, WriteFails
<1>3. CASE Lifecycle
  BY <1>3 DEF Lifecycle, applyFromCache, BootRegen, BootLaunch, Shutdown, Halt, Exit, Dies, Boot,
              WriteOk, WriteFails
<1>4. CASE Environment
  BY <1>4 DEF Environment, Publish, SingboxCrash, MonitorRestart, AgentCrash, Dies, Expire,
              LocalChange
<1>5. CASE UNCHANGED vars
  BY <1>5 DEF vars
<1> QED
  BY <1>1, <1>2, <1>3, <1>4, <1>5 DEF Next

LEMMA CountsKept == ASSUME Counts, [Next]_vars PROVE Counts'
<1> USE RemoteConstants DEF Counts, Fault, failed, outside, regens
<1>1. CASE Sync
  <2>1. UNCHANGED <<waiting, changes>>
    BY <1>1 DEF Sync, SyncBegin, Heartbeat, FetchFails, FetchUsers, SyncCache, SyncWrite,
                SyncCheck, SyncStop, SyncStart
  <2>2. faults' = faults \/ Fault
    BY <1>1 DEF Sync, SyncBegin, Heartbeat, FetchFails, FetchUsers, SyncCache, SyncWrite,
                SyncCheck, SyncStop, SyncStart, WriteOk, WriteFails, StartOk, StartFails
  <2> QED
    BY <2>1, <2>2
<1>2. CASE Regenerate \/ CheckAllUsers
  BY <1>2 DEF Regenerate, CheckAllUsers, RegenLock, RegenWrite, RegenCheck, RegenStop, RegenStart,
              WriteOk, WriteFails, StartOk, StartFails
<1>3. CASE Lifecycle
  BY <1>3 DEF Lifecycle, applyFromCache, BootRegen, BootLaunch, Shutdown, Halt, Exit, Dies, Boot,
              WriteOk, WriteFails, StartOk, StartFails
<1>4. CASE Environment
  BY <1>4 DEF Environment, Publish, SingboxCrash, MonitorRestart, AgentCrash, Dies, Expire,
              LocalChange
<1>5. CASE UNCHANGED vars
  BY <1>5 DEF vars
<1> QED
  BY <1>1, <1>2, <1>3, <1>4, <1>5 DEF Next

LEMMA LoopTypesKept == ASSUME LoopTypes, PlaneTypes, [Next]_vars PROVE LoopTypes'
<1> USE RemoteConstants DEF LoopTypes, LoopState, RegenState, outside, sync, watch, regens
<1>1. CASE SyncBegin \/ Heartbeat \/ FetchFails \/ SyncCheck \/ SyncStop \/ SyncStart
  BY <1>1 DEF SyncBegin, Heartbeat, FetchFails, SyncCheck, SyncStop, SyncStart, SyncReturns
<1>2. CASE FetchUsers
  <2>1. Listed(pub) \subseteq Users
    BY DEF Listed, Merged
  <2> QED
    BY <1>2, <2>1 DEF FetchUsers, SyncReturns, UpdateUsers
<1>3. CASE SyncCache \/ SyncWrite
  BY <1>3 DEF SyncCache, SyncWrite, SyncReturns
<1>4. CASE Regenerate \/ BootRegen
  BY <1>4 DEF Regenerate, RegenLock, BootRegen, RegenList, RegenWrite, RegenCheck, RegenStop,
              RegenStart, RegenReturns, UpdateUsers, LocalOn
<1>5. CASE CheckAllUsers
  BY <1>5 DEF CheckAllUsers
<1>6. CASE applyFromCache
  <2>1. monitored' \subseteq Users /\ kicked' = kicked
    <3>1. CASE cache \notin Versions
      BY <1>6, <3>1 DEF applyFromCache
    <3>2. CASE cache \in Versions
      <4>1. monitored' = Content[cache] /\ kicked' = kicked
        BY <1>6, <3>2 DEF applyFromCache, UpdateUsers
      <4>2. Content[cache] \subseteq Users
        BY <3>2, RemoteConstants
      <4> QED
        BY <4>1, <4>2
    <3> QED
      BY <3>1, <3>2
  <2> QED
    BY <1>6, <2>1 DEF applyFromCache
<1>7. CASE BootLaunch \/ Shutdown \/ Halt \/ Boot
  BY <1>7 DEF BootLaunch, Shutdown, Halt, Boot
<1>8. CASE Exit \/ AgentCrash
  BY <1>8 DEF Exit, AgentCrash, Dies
<1>9. CASE Publish \/ SingboxCrash \/ MonitorRestart
  BY <1>9 DEF Publish, SingboxCrash, MonitorRestart
<1>10. CASE \E u \in Users : Expire(u) \/ \E state \in LocalState : LocalChange(u, state)
  BY <1>10 DEF Expire, LocalChange
<1>11. CASE UNCHANGED vars
  BY <1>11 DEF vars
<1> QED
  BY <1>1, <1>2, <1>3, <1>4, <1>5, <1>6, <1>7, <1>8, <1>9, <1>10, <1>11
     DEF Next, Sync, Lifecycle, Environment

\* A write leaves a list of users or no valid JSON.
LEMMA WriteTypes ==
    ASSUME PlaneTypes, NEW S \in SUBSET Users, NEW other, WriteOk(S, other) \/ WriteFails(other)
    PROVE  /\ file' \in {NoFile, Torn} \cup SUBSET Users
           /\ file # NoFile => file' # NoFile
<1> QED
  BY RemoteConstants DEF PlaneTypes, WriteOk, WriteFails

\* Starting and stopping sing-box.
LEMMA StartTypes ==
    ASSUME PlaneTypes, StartOk \/ StartFails \/ Stop \/ (sb = "backoff" /\ Launch) \/ UNCHANGED plane,
           UNCHANGED file
    PROVE  /\ sb' \in SbState /\ served' \subseteq Users
           /\ sb' \in {"up", "backoff"} => file' # NoFile
<1> USE DEF PlaneTypes, SbState, plane
<1>1. file # NoFile /\ Launch => served' \subseteq Users /\ sb' \in {"up", "backoff"}
  BY DEF Launch
<1> QED
  BY <1>1 DEF StartOk, StartFails, Stop

LEMMA PlaneTypesKept == ASSUME LoopTypes, PlaneTypes, [Next]_vars PROVE PlaneTypes'
<1> USE DEF config, plane
<1>1. CASE SyncBegin \/ Heartbeat \/ FetchFails \/ FetchUsers \/ SyncCheck \/ CheckAllUsers
  BY <1>1 DEF SyncBegin, Heartbeat, FetchFails, FetchUsers, SyncCheck, CheckAllUsers, PlaneTypes
<1>2. CASE SyncCache
  BY <1>2 DEF SyncCache, PlaneTypes, LoopTypes
<1>3. CASE SyncWrite
  BY <1>3, WriteTypes DEF SyncWrite, PlaneTypes, LoopTypes
<1>4. CASE SyncStop \/ SyncStart \/ RegenStop \/ RegenStart \/ BootLaunch \/ Halt
  <2>1. StartOk \/ StartFails \/ Stop \/ UNCHANGED plane
    BY <1>4 DEF SyncStop, SyncStart, RegenStop, RegenStart, BootLaunch, Halt
  <2>2. UNCHANGED <<cache, file>>
    BY <1>4 DEF SyncStop, SyncStart, RegenStop, RegenStart, BootLaunch, Halt
  <2> QED
    BY <2>1, <2>2, StartTypes DEF PlaneTypes
<1>5. CASE RegenWrite
  BY <1>5, WriteTypes DEF RegenWrite, PlaneTypes, LoopTypes
<1>6. CASE RegenLock \/ RegenCheck \/ BootRegen \/ Shutdown \/ Boot
  BY <1>6 DEF RegenLock, RegenCheck, BootRegen, Shutdown, Boot, PlaneTypes
<1>7. CASE applyFromCache
  <2>1. CASE cache \notin Versions
    BY <1>7, <2>1 DEF applyFromCache, PlaneTypes
  <2>2. CASE cache \in Versions
    <3>1. Content[cache] \ expired \in SUBSET Users
      BY <2>2, RemoteConstants
    <3> QED
      BY <1>7, <2>2, <3>1, WriteTypes DEF applyFromCache, PlaneTypes
  <2> QED
    BY <2>1, <2>2
<1>8. CASE Exit \/ AgentCrash
  BY <1>8 DEF Exit, AgentCrash, Dies, PlaneTypes, SbState
<1>9. CASE Publish \/ \E u \in Users : Expire(u) \/ \E state \in LocalState : LocalChange(u, state)
  BY <1>9 DEF Publish, Expire, LocalChange, PlaneTypes
<1>10. CASE SingboxCrash
  BY <1>10 DEF SingboxCrash, PlaneTypes, SbState
<1>11. CASE MonitorRestart
  <2>1. CASE Launch
    BY <1>11, <2>1, StartTypes DEF MonitorRestart, PlaneTypes
  <2>2. CASE sb' = "off" /\ UNCHANGED served
    BY <1>11, <2>2 DEF MonitorRestart, PlaneTypes, SbState
  <2> QED
    BY <1>11, <2>1, <2>2 DEF MonitorRestart
<1>12. CASE UNCHANGED vars
  BY <1>12 DEF vars, PlaneTypes
<1> QED
  BY <1>1, <1>2, <1>3, <1>4, <1>5, <1>6, <1>7, <1>8, <1>9, <1>10, <1>11, <1>12
     DEF Next, Sync, Regenerate, Lifecycle, Environment

\* The variables keep their types; in particular nothing but a list of users is ever
\* served, although the Manager's monitor launches sing-box without looking for
\* config.json.
THEOREM TypeCorrect == Spec => []TypeOK
<1> DEFINE TInv == LoopTypes /\ PlaneTypes /\ Counts /\ Flags
<1>1. Init => LoopTypes
  BY DEF Init, LoopTypes, LoopState, RegenState, LocalState
<1>2. Init => PlaneTypes
  BY DEF Init, PlaneTypes, SbState
<1>3. Init => Counts
  BY RemoteConstants DEF Init, Counts
<1>4. Init => Flags
  BY DEF Init, Flags
<1>5. TInv /\ [Next]_vars => TInv'
  BY LoopTypesKept, PlaneTypesKept, CountsKept, FlagsKept
<1>6. TInv => TypeOK
  BY DEF LoopTypes, PlaneTypes, Counts, Flags, TypeOK
<1> QED
  BY <1>1, <1>2, <1>3, <1>4, <1>5, <1>6, PTL DEF Spec

=============================================================================
