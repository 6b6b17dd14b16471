----------------------------- MODULE LocalUsers -----------------------------
(***************************************************************************)
(* Local users and how their changes reach the data plane: local.Store     *)
(* (memory and local_users.json), the Agent's regenerateConfig and         *)
(* accountLocalTraffic, stats.Meter and config.Generator.                  *)
(*                                                                         *)
(* HTTP handlers call the Store concurrently; every change spawns a        *)
(* regenerateConfig goroutine, serialised by regenMu.  The main loop       *)
(* accounts traffic on a timer, and regenerateConfig accounts it once more *)
(* before it restarts sing-box; only Store.mu and Meter.mu order the two.  *)
(* A section under one of these locks is one step.  sing-box itself is     *)
(* reduced to what its Manager promises (module Supervisor).  Upload and   *)
(* download are treated alike by Meter and added up, so one counter stands *)
(* for both.                                                               *)
(***************************************************************************)
EXTENDS Naturals, FiniteSets

CONSTANTS
    Users,       \* uuids CreateUser may generate
    NoUser,      \* the map has no entry for the uuid
    Torn,        \* the content of a file whose write was cut short
    Limits,      \* traffic_limit values of requests, 0 meaning unlimited
    Expiries,    \* expire_at values of requests, NoExpiry meaning never
    MaxTime,     \* bound: the clock runs from 0 to MaxTime
    MaxTraffic,  \* bound: units of traffic per user
    MaxChanges,  \* bound: requests that change users
    MaxFaults    \* bound: failed writes and starts, crashes of sing-box and agent

NoExpiry == MaxTime + 1     \* a time that never passes

User == [enabled : BOOLEAN, limit : Nat, used : Nat,
         expire : 0 .. NoExpiry]
Table == [Users -> User \cup {NoUser}]

ASSUME UsersConstants ==
    /\ Limits \subseteq Nat
    /\ MaxTime \in Nat
    /\ Expiries \subseteq 0 .. NoExpiry
    /\ MaxTraffic \in Nat /\ MaxChanges \in Nat /\ MaxFaults \in Nat
    /\ NoUser \notin User /\ Torn \notin Table /\ \A S \in SUBSET Users : S # Torn

VARIABLES
    users,       \* Store.users
    disk,        \* local_users.json
    born,        \* uuids generated so far; uuid.New never repeats one
    last,        \* Meter.last
    waiting,     \* regenerateConfig goroutines waiting for regenMu
    regen,       \* where the holder of regenMu is
    tick,        \* where the main loop is in accountLocalTraffic
    reading,     \* reading[t]: what thread t collected from sing-box
    due,         \* due[t]: deltas thread t still has to add to the Store
    crossed,     \* the main loop has seen a user cross his limit
    snapshot,    \* the users of the configuration being generated
    file,        \* the users of config.json
    sb, served,  \* sing-box: its state and the users of its configuration
    counter,     \* the traffic counters of sing-box
    now,         \* the clock
    changes, faults,
    \* history: traffic that really flowed; what the last acknowledged request
    \* promised about each user; whether a save ever failed or was cut short;
    \* and whether a failure kept the latest users from reaching sing-box
    real, promised, damaged, lost

store  == <<users, disk, born, promised, damaged>>
acct   == <<last, tick, reading, due, crossed>>
plane  == <<file, sb, served, counter, real>>
bounds == <<now, changes, faults>>
vars   == <<store, acct, waiting, regen, snapshot, plane, bounds, lost>>

Thread == {"tick", "regen"}
Zero   == [u \in Users |-> 0]
Empty  == [u \in {} |-> 0]

\* "down": between an agent's death and its restart by systemd.
RegenState == {"idle", "account", "read", "add", "list", "write", "apply", "start", "reset"}
TickState  == {"down", "boot", "idle", "read", "add"}
\* "backoff": crashed, Manager.monitor will restart it; "stray": left behind by
\* an agent that died.
SbState == {"off", "up", "backoff", "stray"}

\* One type invariant: every variable ranges over the values the code gives it.
TypeOK ==
    /\ users \in Table /\ disk \in Table \cup {Torn} /\ born \subseteq Users
    /\ last \in [Users -> 0 .. MaxTraffic]
    /\ waiting \in Nat
    /\ regen \in RegenState /\ tick \in TickState
    /\ reading \in [Thread -> UNION {[S -> 0 .. MaxTraffic] : S \in SUBSET Users}]
    /\ due \in [Thread -> [Users -> 0 .. MaxTraffic]]
    /\ crossed \in BOOLEAN
    /\ snapshot \subseteq Users
    /\ file \in (SUBSET Users) \cup {Torn}
    /\ sb \in SbState /\ served \subseteq Users
    /\ counter \in [Users -> 0 .. MaxTraffic] /\ real \in [Users -> 0 .. MaxTraffic]
    /\ now \in 0 .. MaxTime /\ changes \in 0 .. MaxChanges /\ faults \in 0 .. MaxFaults
    /\ promised \in [Users -> {"nothing", "present", "absent"}]
    /\ damaged \in BOOLEAN /\ lost \in BOOLEAN

Init ==
    /\ users = [u \in Users |-> NoUser] /\ disk = users /\ born = {}
    /\ last = Zero /\ waiting = 1 /\ regen = "idle" /\ tick = "boot"
    /\ reading = [t \in Thread |-> Empty] /\ due = [t \in Thread |-> Zero]
    /\ crossed = FALSE /\ snapshot = {} /\ file = {}
    /\ sb = "off" /\ served = {} /\ counter = Zero
    /\ now = 0 /\ changes = 0 /\ faults = 0
    /\ real = Zero /\ promised = [u \in Users |-> "nothing"]
    /\ damaged = FALSE /\ lost = FALSE

Alive == tick # "down"

\* A fault happens, within the bound.
Fault == faults < MaxFaults /\ faults' = faults + 1

-----------------------------------------------------------------------------
(* The Store.  os.WriteFile may succeed, fail to open the file, or fail    *)
(* half-way and leave it truncated.                                        *)

SaveOk(table) == disk' = table /\ UNCHANGED <<faults, damaged>>

SaveFails == Fault /\ disk' \in {disk, Torn} /\ damaged' = TRUE

Request == Alive /\ changes < MaxChanges /\ changes' = changes + 1

\* Mutated: no new goroutine while one is under way.
onChangeCoalesced == waiting' = IF regen = "idle" /\ waiting = 0 THEN 1 ELSE waiting

\* go s.onChange(), which is regenerateConfig.
onChange == waiting' = waiting + 1

\* CreateUser; a failed save takes the user out of memory again.
CreateUser(u, limit, expire) ==
    LET new == [users EXCEPT ![u] = [enabled |-> TRUE, limit |-> limit, used |-> 0,
                                     expire |-> expire]]
    IN  /\ Request /\ u \notin born /\ born' = born \cup {u}
        /\ \/ /\ SaveOk(new) /\ users' = new /\ onChange
              /\ promised' = [promised EXCEPT ![u] = "present"]
           \/ SaveFails /\ UNCHANGED <<users, waiting, promised>>
        /\ UNCHANGED <<acct, regen, snapshot, plane, now, lost>>

\* UpdateUser: the fields given in the request; a failed save leaves memory
\* changed and calls nobody.
UpdateUser(u, enabled, limit, expire) ==
    /\ Request /\ users[u] # NoUser
    /\ users' = [users EXCEPT ![u].enabled = enabled, ![u].limit = limit,
                              ![u].expire = expire]
    /\ \/ SaveOk(users') /\ onChange /\ lost' = lost
       \/ SaveFails /\ waiting' = waiting /\ lost' = TRUE
    /\ UNCHANGED <<born, promised, acct, regen, snapshot, plane, now>>

\* Mutated: the file is written before the user is taken out of the map.
DeleteUserSavedFirst(u) ==
    /\ Request /\ users[u] # NoUser
    /\ users' = [users EXCEPT ![u] = NoUser]
    /\ SaveOk(users) /\ onChange
    /\ promised' = [promised EXCEPT ![u] = "absent"]
    /\ UNCHANGED <<born, acct, regen, snapshot, plane, now, lost>>

\* DeleteUser; a failed save leaves the user out of memory and calls nobody.
DeleteUser(u) ==
    /\ Request /\ users[u] # NoUser
    /\ users' = [users EXCEPT ![u] = NoUser]
    /\ \/ /\ SaveOk(users') /\ onChange /\ lost' = lost
          /\ promised' = [promised EXCEPT ![u] = "absent"]
       \/ /\ SaveFails /\ waiting' = waiting /\ lost' = TRUE
          /\ promised' = [promised EXCEPT ![u] = "nothing"]
    /\ UNCHANGED <<born, acct, regen, snapshot, plane, now>>

-----------------------------------------------------------------------------
(* accountLocalTraffic, run by the main loop ("tick") and by               *)
(* regenerateConfig ("regen").                                             *)

\* Collect: the readings of the users sing-box knows.
Collect(t) ==
    /\ reading' = [reading EXCEPT ![t] = [u \in served |-> counter[u]]]
    /\ UNCHANGED <<last, due, crossed>>

\* A reading below the last one means that sing-box was restarted.
delta(cur, prev) == IF cur < prev THEN cur ELSE cur - prev

\* Meter.Deltas; users without a reading keep their last one.
Deltas(t) ==
    LET known == DOMAIN reading[t]
    IN  /\ due'  = [due EXCEPT ![t] = [u \in Users |-> IF u \in known
                                                       THEN delta(reading[t][u], last[u])
                                                       ELSE 0]]
        /\ last' = [u \in Users |-> IF u \in known THEN reading[t][u] ELSE last[u]]
        /\ reading' = [reading EXCEPT ![t] = Empty]
        /\ UNCHANGED crossed

\* Mutated: a user crosses his limit only when he exceeds it.
CrossesAbove(before, after, limit) == limit > 0 /\ before <= limit /\ after > limit

\* The limit is reached now and was not before.
Crosses(before, after, limit) == limit > 0 /\ before < limit /\ after >= limit

\* AddTraffic for one user; a failed save is ignored.  Only the main loop looks
\* at the result.
AddTraffic(t, u) ==
    /\ due[t][u] > 0
    /\ due' = [due EXCEPT ![t][u] = 0]
    /\ IF users[u] = NoUser
       THEN UNCHANGED <<users, disk, crossed, faults, damaged>>
       ELSE LET after == users[u].used + due[t][u]
            IN  /\ users' = [users EXCEPT ![u].used = after]
                /\ SaveOk(users') \/ SaveFails
                /\ crossed' = (crossed \/ (t = "tick"
                                  /\ Crosses(users[u].used, after, users[u].limit)))
    /\ UNCHANGED <<born, promised, last, reading>>

TickCollect ==
    /\ tick = "idle" /\ sb = "up"
    /\ Collect("tick") /\ tick' = "read"
    /\ UNCHANGED <<store, waiting, regen, snapshot, plane, bounds, lost>>

TickDeltas ==
    /\ tick = "read"
    /\ Deltas("tick") /\ tick' = "add"
    /\ UNCHANGED <<store, waiting, regen, snapshot, plane, bounds, lost>>

TickAdd(u) ==
    /\ tick = "add" /\ AddTraffic("tick", u)
    /\ UNCHANGED <<tick, waiting, regen, snapshot, plane, now, changes, lost>>

\* A crossing regenerates the configuration.
TickEnd ==
    /\ tick = "add" /\ due["tick"] = Zero
    /\ tick' = "idle" /\ crossed' = FALSE
    /\ waiting' = IF crossed THEN waiting + 1 ELSE waiting
    /\ UNCHANGED <<store, last, reading, due, regen, snapshot, plane, bounds, lost>>

-----------------------------------------------------------------------------
(* regenerateConfig.                                                       *)

RegenLock ==
    /\ Alive /\ regen = "idle" /\ waiting > 0
    /\ waiting' = waiting - 1 /\ regen' = "account"
    /\ UNCHANGED <<store, acct, snapshot, plane, bounds, lost>>

\* Nothing to account when sing-box is not running or does not answer.
RegenCollect ==
    /\ regen = "account"
    /\ \/ sb = "up" /\ Collect("regen") /\ regen' = "read"
       \/ regen' = "list" /\ UNCHANGED <<last, reading, due, crossed>>
    /\ UNCHANGED <<store, tick, waiting, snapshot, plane, bounds, lost>>

RegenDeltas ==
    /\ regen = "read"
    /\ Deltas("regen") /\ regen' = "add"
    /\ UNCHANGED <<store, tick, waiting, snapshot, plane, bounds, lost>>

RegenAdd(u) ==
    /\ regen = "add" /\ AddTraffic("regen", u)
    /\ UNCHANGED <<tick, waiting, regen, snapshot, plane, now, changes, lost>>

RegenAdded ==
    /\ regen = "add" /\ due["regen"] = Zero
    /\ regen' = "list"
    /\ UNCHANGED <<store, acct, waiting, snapshot, plane, bounds, lost>>

OverQuota(u) == users[u].limit > 0 /\ users[u].used >= users[u].limit

Expired(u) == users[u].expire # NoExpiry /\ now > users[u].expire

\* Generate writes u into the configuration.
Generate(u) == users[u] # NoUser /\ users[u].enabled /\ ~OverQuota(u) /\ ~Expired(u)

\* ListUsers and Generate.
RegenList ==
    /\ regen = "list"
    /\ snapshot' = {u \in Users : Generate(u)}
    /\ lost' = FALSE /\ regen' = "write"
    /\ UNCHANGED <<store, acct, waiting, plane, bounds>>

\* Leaving regenerateConfig; the first time lets the main loop begin.
RegenEnd == regen' = "idle" /\ tick' = IF tick = "boot" THEN "idle" ELSE tick

\* WriteToFile; on failure the configuration is not applied.
RegenWrite ==
    /\ regen = "write"
    /\ \/ file' = snapshot /\ regen' = "apply" /\ UNCHANGED <<tick, faults, lost>>
       \/ Fault /\ file' \in {file, Torn} /\ RegenEnd /\ lost' = TRUE
    /\ UNCHANGED <<store, last, reading, due, crossed, waiting, snapshot, sb, served,
                   counter, real, now, changes>>

\* IsRunning: if so, Reload stops sing-box; otherwise go straight to Start.
RegenApply ==
    /\ regen = "apply" /\ regen' = "start"
    /\ IF sb = "up" THEN sb' = "off" /\ served' = {} /\ counter' = Zero
                    ELSE UNCHANGED <<sb, served, counter>>
    /\ UNCHANGED <<store, acct, waiting, snapshot, file, real, bounds, lost>>

\* A new process reads config.json and counts from zero; one that cannot read it
\* exits at once.
Launch ==
    /\ counter' = Zero
    /\ IF file = Torn THEN sb' = "backoff" /\ served' = {}
                      ELSE sb' = "up" /\ served' = file

\* Manager.Start: refused when running (monitor was faster), reaps strays, or
\* fails (binary missing, exec error).
RegenStart ==
    /\ regen = "start" /\ regen' = "reset"
    /\ \/ sb = "up" /\ UNCHANGED <<sb, served, counter, faults, lost>>
       \/ sb # "up" /\ Launch /\ UNCHANGED <<faults, lost>>
       \/ sb # "up" /\ Fault /\ lost' = TRUE /\ UNCHANGED <<sb, served, counter>>
    /\ UNCHANGED <<store, acct, waiting, snapshot, file, real, now, changes>>

\* The deferred Meter.Reset, then the unlock.
RegenReset ==
    /\ regen = "reset" /\ last' = Zero
    /\ RegenEnd
    /\ UNCHANGED <<store, reading, due, crossed, waiting, snapshot, plane, bounds, lost>>

-----------------------------------------------------------------------------
(* The environment: sing-box, its Manager's monitor, clients, time, and    *)
(* the death and restart of the agent.                                     *)

Traffic(u) ==
    /\ sb \in {"up", "stray"} /\ u \in served /\ real[u] < MaxTraffic
    /\ real' = [real EXCEPT ![u] = @ + 1]
    /\ counter' = [counter EXCEPT ![u] = @ + 1]
    /\ UNCHANGED <<store, acct, waiting, regen, snapshot, file, sb, served, bounds, lost>>

SingboxCrash ==
    /\ sb = "up" /\ Fault
    /\ sb' = "backoff" /\ served' = {} /\ counter' = Zero
    /\ UNCHANGED <<store, acct, waiting, regen, snapshot, file, real, now, changes, lost>>

\* The monitor restarts sing-box, or gives up.
MonitorRestart ==
    /\ Alive /\ sb = "backoff"
    /\ Launch \/ (sb' = "off" /\ UNCHANGED <<served, counter>>)
    /\ UNCHANGED <<store, acct, waiting, regen, snapshot, file, real, bounds, lost>>

Clock ==
    /\ now < MaxTime /\ now' = now + 1
    /\ UNCHANGED <<store, acct, waiting, regen, snapshot, plane, changes, faults, lost>>

\* The agent dies, perhaps inside a save, and loses its memory; sing-box may
\* survive it.
AgentCrash ==
    /\ Alive /\ Fault
    /\ disk' \in {disk, Torn} /\ damaged' = (damaged \/ disk' = Torn)
    /\ users' = [u \in Users |-> NoUser]
    /\ last' = Zero /\ waiting' = 0 /\ regen' = "idle" /\ tick' = "down"
    /\ reading' = [t \in Thread |-> Empty] /\ due' = [t \in Thread |-> Zero]
    /\ crossed' = FALSE /\ snapshot' = {}
    /\ IF sb \in {"up", "stray"}
       THEN \/ sb' = "stray" /\ UNCHANGED <<served, counter>>
            \/ sb' = "off" /\ served' = {} /\ counter' = Zero
       ELSE sb' = "off" /\ UNCHANGED <<served, counter>>
    /\ UNCHANGED <<born, promised, file, real, now, changes, lost>>

\* NewStore: load's error (a torn file) is ignored and leaves the Store empty.
\* Run then regenerates the configuration before the main loop begins.
Boot ==
    /\ tick = "down" /\ tick' = "boot"
    /\ users' = IF disk = Torn THEN [u \in Users |-> NoUser] ELSE disk
    /\ waiting' = 1
    /\ UNCHANGED <<disk, born, promised, damaged, last, reading, due, crossed, regen, snapshot,
                   plane, bounds, lost>>

-----------------------------------------------------------------------------

Change ==
    \E u \in Users :
        \/ DeleteUser(u)
        \/ \E limit \in Limits, expire \in Expiries :
             \/ CreateUser(u, limit, expire)
             \/ \E enabled \in BOOLEAN : UpdateUser(u, enabled, limit, expire)

Tick == TickCollect \/ TickDeltas \/ (\E u \in Users : TickAdd(u)) \/ TickEnd

Regenerate ==
    \/ RegenLock \/ RegenCollect \/ RegenDeltas \/ (\E u \in Users : RegenAdd(u))
    \/ RegenAdded \/ RegenList \/ RegenWrite \/ RegenApply \/ RegenStart \/ RegenReset

Next ==
    \/ Change \/ Tick \/ Regenerate
    \/ (\E u \in Users : Traffic(u)) \/ SingboxCrash \/ MonitorRestart
    \/ Clock \/ AgentCrash \/ Boot

Spec == Init /\ [][Next]_vars

\* Goroutines run, the timer keeps firing, systemd restarts the agent.
FairSpec == Spec /\ WF_vars(Tick) /\ WF_vars(Regenerate) /\ WF_vars(Boot)

-----------------------------------------------------------------------------
(* Properties.                                                             *)

Serving(u) == sb \in {"up", "stray"} /\ u \in served

\* The user may not be served, for a reason other than the passing of time.
Barred(u) == users[u] = NoUser \/ ~users[u].enabled \/ OverQuota(u)

Quiet == Alive /\ waiting = 0 /\ regen = "idle" /\ tick = "idle"

\* Once all regenerations are through and none of them failed, sing-box serves no
\* deleted, disabled or over-quota user and everybody else who is not expired:
\* no change and no crossing of a limit is lost between the locks, whatever order
\* the goroutines ran in.
ServesTheStore ==
    Quiet /\ sb = "up" /\ ~lost =>
        \A u \in Users : /\ Serving(u) => ~Barred(u)
                         /\ Generate(u) => Serving(u)

\* What an acknowledged CreateUser or DeleteUser promised holds after any number
\* of restarts, as long as no write of local_users.json was cut short: created
\* users stay, deleted users do not come back.
AckedIsDurable ==
    Alive /\ ~damaged =>
        \A u \in Users : /\ promised[u] = "present" => users[u] # NoUser
                         /\ promised[u] = "absent"  => users[u] = NoUser

\* A barred user is eventually cut off, or some failure was only logged.
BarredIsCutOff ==
    \A u \in Users : (Alive /\ Barred(u) /\ Serving(u)) ~> (~Serving(u) \/ ~Barred(u) \/ lost)

\* No user is charged for traffic that did not flow (Meter: a reading below the
\* last one means a restart, and restarts never charge twice).
NeverOvercharged ==
    \A u \in Users : users[u] # NoUser => users[u].used <= real[u]

\* An expired user is eventually cut off (Generate: only leaving the user out of
\* the configuration really stops him).
ExpiredIsCutOff ==
    \A u \in Users :
        (Serving(u) /\ users[u] # NoUser /\ Expired(u)) ~> (~Serving(u) \/ ~Expired(u) \/ lost)

=============================================================================
