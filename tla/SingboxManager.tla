--------------------------- MODULE SingboxManager ---------------------------
(***************************************************************************)
(* The sing-box process supervisor of internal/singbox/process.go.         *)
(*                                                                         *)
(* A Manager launches sing-box, restarts it with a back-off when it        *)
(* crashes, and gives up after too many consecutive failures.  Start, Stop *)
(* and Reload are called from several goroutines; every launch also spawns *)
(* a monitor goroutine (cmd.Wait, then restart) and a settle timer (clears *)
(* the failure count once the process has survived a while).  A section of *)
(* code that holds Manager.mu is one step; goroutines interleave between   *)
(* sections, and processes exit at any moment.                             *)
(***************************************************************************)
EXTENDS Naturals, FiniteSets

CONSTANTS
    Callers,                 \* goroutines that call Start, Stop and Reload
    MaxConsecutiveFailures,  \* maxConsecutiveFailures (10 in the code)
    ResidentialMaxFailures,  \* residentialMaxFailures (2 in the code)
    Faults,                  \* environment faults that may happen, a subset of AllFaults
    MaxLaunches,             \* bound: processes ever launched
    MaxGeneration            \* bound: Stop is not called beyond this generation

\* "exec": exec of sing-box may fail; "uninstall": binary or config may vanish;
\* "agent": the agent itself may die and be restarted, leaving sing-box behind.
AllFaults == {"exec", "uninstall", "agent"}

ASSUME ManagerConstants ==
    /\ MaxConsecutiveFailures \in Nat \ {0}
    /\ ResidentialMaxFailures \in Nat \ {0}
    /\ Faults \subseteq AllFaults
    /\ MaxLaunches \in Nat
    /\ MaxGeneration \in Nat

Pid   == 1 .. MaxLaunches
NoPid == 0                   \* m.cmd is nil, or its Process is

VARIABLES
    \* fields of Manager
    running, generation, consecutiveFailures, stopped, cmd,
    \* files: residential.json; sing-box binary and config.json
    residential, installed,
    \* operating system: number of launches, and the state of each process
    launched, ps,
    \* goroutines: monitors, settle timers (one of each per launch, both carrying
    \* gen[p], the generation of the launch) and where each caller is in Reload
    mon, settle, gen, caller,
    \* history: a Start has succeeded and no Stop came after it; and the last
    \* restart by a monitor returned an error, which monitor only logs
    wanted, restartFailed

fields == <<running, generation, consecutiveFailures, stopped, cmd>>
files  == <<residential, installed>>
os     == <<launched, ps>>
ghosts == <<wanted, restartFailed>>
vars   == <<fields, files, os, mon, settle, gen, caller, ghosts>>

\* "doomed": Stop has sent SIGKILL and returned without waiting.
PsState     == {"none", "up", "doomed", "exited"}
MonState    == {"none", "wait", "backoff", "gone"}
SettleState == {"none", "timing", "gone"}
CallerState == {"idle", "reload_stop", "reload_start"}

\* One type invariant: every variable ranges over the values the code gives it.
TypeOK ==
    /\ running \in BOOLEAN
    /\ generation \in Nat
    /\ consecutiveFailures \in Nat
    /\ stopped \in BOOLEAN
    /\ cmd \in Pid \cup {NoPid}
    /\ residential \in BOOLEAN /\ installed \in BOOLEAN
    /\ launched \in 0 .. MaxLaunches
    /\ ps \in [Pid -> PsState]
    /\ mon \in [Pid -> MonState]
    /\ settle \in [Pid -> SettleState]
    /\ gen \in [Pid -> Nat]
    /\ caller \in [Callers -> CallerState]
    /\ wanted \in BOOLEAN /\ restartFailed \in BOOLEAN

Alive(p) == ps[p] \in {"up", "doomed"}

\* A freshly created Manager; nothing has been launched yet.
Init ==
    /\ running = FALSE /\ generation = 0 /\ consecutiveFailures = 0
    /\ stopped = FALSE /\ cmd = NoPid
    /\ residential \in BOOLEAN /\ installed \in BOOLEAN
    /\ launched = 0
    /\ ps = [p \in Pid |-> "none"]
    /\ mon = [p \in Pid |-> "none"]
    /\ settle = [p \in Pid |-> "none"]
    /\ gen = [p \in Pid |-> 0]
    /\ caller = [c \in Callers |-> "idle"]
    /\ wanted = FALSE /\ restartFailed = FALSE

-----------------------------------------------------------------------------
(* startLocked, run by a caller or by a monitor that holds mu.  m is mon    *)
(* with the calling goroutine's own entry already updated.                 *)

\* Mutated: strays are not reaped.
reapNothing == ps

\* reapStrays: every process with the manager's command line is killed, first asked,
\* then forced.  pgrep and pkill are taken to be there and to work.
reapStrays == [p \in Pid |-> IF Alive(p) THEN "exited" ELSE ps[p]]

\* "already running", "config file not found", "binary not found".
StartRefused(m) ==
    /\ running \/ ~installed
    /\ mon' = m
    /\ UNCHANGED <<fields, os, settle, gen>>

\* cmd.Start fails: strays are already dead and m.cmd holds a Cmd without Process.
StartExecFails(m) ==
    /\ ~running /\ installed /\ "exec" \in Faults
    /\ cmd' = NoPid
    /\ ps' = reapStrays
    /\ mon' = m
    /\ UNCHANGED <<running, generation, consecutiveFailures, stopped, launched,
                   settle, gen>>

\* Mutated: the goroutines get the generation before it is incremented.
LaunchOldGen(m, p) ==
    /\ ~running /\ installed
    /\ launched < MaxLaunches /\ p = launched + 1
    /\ launched' = p
    /\ ps' = [reapStrays EXCEPT ![p] = "up"]
    /\ cmd' = p
    /\ running' = TRUE
    /\ generation' = generation + 1
    /\ mon' = [m EXCEPT ![p] = "wait"]
    /\ settle' = [settle EXCEPT ![p] = "timing"]
    /\ gen' = [gen EXCEPT ![p] = generation]
    /\ UNCHANGED <<consecutiveFailures, stopped>>

Launch(m, p) ==
    /\ ~running /\ installed
    /\ launched < MaxLaunches /\ p = launched + 1
    /\ launched' = p
    /\ ps' = [reapStrays EXCEPT ![p] = "up"]
    /\ cmd' = p
    /\ running' = TRUE
    /\ generation' = generation + 1
    /\ mon' = [m EXCEPT ![p] = "wait"]
    /\ settle' = [settle EXCEPT ![p] = "timing"]
    /\ gen' = [gen EXCEPT ![p] = generation + 1]
    /\ UNCHANGED <<consecutiveFailures, stopped>>

\* Start returned an error, or nil.
StartErr(m) == StartRefused(m) \/ StartExecFails(m)
StartOk(m)  == \E p \in Pid : Launch(m, p)

\* A caller's startLocked.
startLocked ==
    \/ StartErr(mon) /\ UNCHANGED ghosts
    \/ StartOk(mon) /\ wanted' = TRUE /\ restartFailed' = FALSE

\* Mutated: the generation is not advanced.
stopKeepsGeneration ==
    /\ generation < MaxGeneration
    /\ running' = FALSE
    /\ cmd' = NoPid
    /\ wanted' = FALSE /\ UNCHANGED restartFailed
    /\ \/ cmd # NoPid /\ ps' = [ps EXCEPT ![cmd] = "exited"]
       \/ cmd = NoPid /\ ps' = ps
    /\ UNCHANGED <<generation, consecutiveFailures, stopped, files, launched, mon,
                   settle, gen>>

\* Stop: advance the generation, forget cmd, SIGTERM, wait up to 5 s, SIGKILL.
\* Reaching SIGKILL, Stop returns without waiting for the process to die.
stop ==
    /\ generation < MaxGeneration
    /\ generation' = generation + 1
    /\ running' = FALSE
    /\ cmd' = NoPid
    /\ wanted' = FALSE /\ UNCHANGED restartFailed
    /\ \/ cmd # NoPid /\ \E s \in {"exited", "doomed"} :
             ps' = [ps EXCEPT ![cmd] = IF ps[cmd] = "up" THEN s ELSE @]
       \/ cmd = NoPid /\ ps' = ps
    /\ UNCHANGED <<consecutiveFailures, stopped, files, launched, mon, settle, gen>>

-----------------------------------------------------------------------------
(* The callers: main loop, regenerateConfig goroutines, revocation, ...     *)

Start(c) ==
    /\ caller[c] = "idle"
    /\ startLocked
    /\ UNCHANGED <<files, caller>>

Stop(c) ==
    /\ caller[c] = "idle"
    /\ stop
    /\ UNCHANGED caller

\* Reload is three critical sections: IsRunning, Stop, Start.
ReloadCheck(c) ==
    /\ caller[c] = "idle" /\ running
    /\ caller' = [caller EXCEPT ![c] = "reload_stop"]
    /\ UNCHANGED <<fields, files, os, mon, settle, gen, ghosts>>

ReloadStop(c) ==
    /\ caller[c] = "reload_stop"
    /\ stop
    /\ caller' = [caller EXCEPT ![c] = "reload_start"]

ReloadStart(c) ==
    /\ caller[c] = "reload_start"
    /\ startLocked
    /\ caller' = [caller EXCEPT ![c] = "idle"]
    /\ UNCHANGED files

-----------------------------------------------------------------------------
(* The monitor goroutine of launch p.                                      *)

\* Mutated: monitors do not compare generations.
NeverStale(p) == FALSE

Stale(p) == gen[p] # generation

\* cmd.Wait has returned, the monitor takes mu and finds itself superseded.
MonitorStale(p) ==
    /\ mon[p] = "wait" /\ ps[p] = "exited" /\ Stale(p)
    /\ mon' = [mon EXCEPT ![p] = "gone"]
    /\ UNCHANGED <<fields, files, os, settle, gen, caller, ghosts>>

\* Mutated: giving up is not recorded.
MonitorCrashSilent(p) ==
    /\ mon[p] = "wait" /\ ps[p] = "exited" /\ ~Stale(p)
    /\ running' = FALSE
    /\ consecutiveFailures' = consecutiveFailures + 1
    /\ mon' = [mon EXCEPT ![p] = IF consecutiveFailures + 1 >= MaxConsecutiveFailures
                                 THEN "gone" ELSE "backoff"]
    /\ UNCHANGED <<generation, stopped, cmd, files, os, settle, gen, caller, ghosts>>

\* The current process has crashed: count it, move residential.json away when
\* it is suspected (the rename may fail), then give up or back off.
MonitorCrash(p) ==
    /\ mon[p] = "wait" /\ ps[p] = "exited" /\ ~Stale(p)
    /\ running' = FALSE
    /\ \E disable \in BOOLEAN :
         LET failures == IF disable THEN 1 ELSE consecutiveFailures + 1
             giveUp   == failures >= MaxConsecutiveFailures
         IN  /\ disable => residential /\ consecutiveFailures + 1 >= ResidentialMaxFailures
             /\ residential' = (residential /\ ~disable)
             /\ consecutiveFailures' = IF disable THEN 0 ELSE failures
             /\ stopped' = (stopped \/ giveUp)
             /\ mon' = [mon EXCEPT ![p] = IF giveUp THEN "gone" ELSE "backoff"]
    /\ UNCHANGED <<generation, cmd, installed, os, settle, gen, caller, ghosts>>

\* Mutated: the check after the back-off is missing.
MonitorRestartUnchecked(p) ==
    /\ mon[p] = "backoff"
    /\ LET m == [mon EXCEPT ![p] = "gone"]
       IN  \/ StartErr(m) /\ restartFailed' = TRUE
           \/ StartOk(m) /\ restartFailed' = FALSE
    /\ UNCHANGED <<files, caller, wanted>>

\* The back-off is over; a monitor superseded meanwhile does nothing.
MonitorRestart(p) ==
    /\ mon[p] = "backoff"
    /\ LET m == [mon EXCEPT ![p] = "gone"]
       IN  IF Stale(p)
           THEN mon' = m /\ UNCHANGED <<fields, os, settle, gen, restartFailed>>
           ELSE \/ StartErr(m) /\ restartFailed' = TRUE
                \/ StartOk(m) /\ restartFailed' = FALSE
    /\ UNCHANGED <<files, caller, wanted>>

\* Mutated: the timer does not check that its launch is the current one.
SettleAnyLaunch(p) ==
    /\ settle[p] = "timing"
    /\ settle' = [settle EXCEPT ![p] = "gone"]
    /\ IF running
       THEN consecutiveFailures' = 0 /\ stopped' = FALSE
       ELSE UNCHANGED <<consecutiveFailures, stopped>>
    /\ UNCHANGED <<running, generation, cmd, files, os, mon, gen, caller, ghosts>>

\* Mutated: the count decays by one instead of being cleared.
SettleDecays(p) ==
    /\ settle[p] = "timing"
    /\ settle' = [settle EXCEPT ![p] = "gone"]
    /\ IF ~Stale(p) /\ running
       THEN consecutiveFailures' = consecutiveFailures - 1 /\ stopped' = FALSE
       ELSE UNCHANGED <<consecutiveFailures, stopped>>
    /\ UNCHANGED <<running, generation, cmd, files, os, mon, gen, caller, ghosts>>

\* The settle timer of launch p fires.
Settle(p) ==
    /\ settle[p] = "timing"
    /\ settle' = [settle EXCEPT ![p] = "gone"]
    /\ IF ~Stale(p) /\ running
       THEN consecutiveFailures' = 0 /\ stopped' = FALSE
       ELSE UNCHANGED <<consecutiveFailures, stopped>>
    /\ UNCHANGED <<running, generation, cmd, files, os, mon, gen, caller, ghosts>>

-----------------------------------------------------------------------------
(* Environment.                                                            *)

\* A sing-box process exits by itself, or the SIGKILL takes effect.
Exit(p) ==
    /\ Alive(p)
    /\ ps' = [ps EXCEPT ![p] = "exited"]
    /\ UNCHANGED <<fields, files, launched, mon, settle, gen, caller, ghosts>>

\* The App writes or deletes residential.json.
WriteResidential ==
    /\ residential' = ~residential
    /\ UNCHANGED <<fields, installed, os, mon, settle, gen, caller, ghosts>>

\* sing-box and its config.json are installed, or one of them is removed.
Install ==
    /\ installed => "uninstall" \in Faults
    /\ installed' = ~installed
    /\ UNCHANGED <<fields, residential, os, mon, settle, gen, caller, ghosts>>

\* The agent dies and a new one starts: its memory and goroutines are gone, the
\* sing-box it launched is left behind.
AgentRestart ==
    /\ "agent" \in Faults
    /\ running' = FALSE /\ generation' = 0 /\ consecutiveFailures' = 0
    /\ stopped' = FALSE /\ cmd' = NoPid
    /\ mon' = [p \in Pid |-> "gone"]
    /\ settle' = [p \in Pid |-> "gone"]
    /\ caller' = [c \in Callers |-> "idle"]
    /\ wanted' = FALSE /\ restartFailed' = FALSE
    /\ gen' = [p \in Pid |-> 0]
    /\ UNCHANGED <<files, os>>

Next ==
    \/ \E c \in Callers : Start(c) \/ Stop(c) \/ ReloadCheck(c) \/ ReloadStop(c) \/ ReloadStart(c)
    \/ \E p \in Pid : MonitorStale(p) \/ MonitorCrash(p) \/ MonitorRestart(p) \/ Settle(p) \/ Exit(p)
    \/ WriteResidential \/ Install \/ AgentRestart

Spec == Init /\ [][Next]_vars

\* A goroutine that is not blocked runs eventually, a timer fires eventually
\* (Go's scheduler and runtime timers).  Callers and the environment owe nothing.
Fairness ==
    \A p \in Pid :
        /\ WF_vars(MonitorStale(p)) /\ WF_vars(MonitorCrash(p))
        /\ WF_vars(MonitorRestart(p)) /\ WF_vars(Settle(p))

FairSpec == Spec /\ Fairness

-----------------------------------------------------------------------------
(* Properties.                                                             *)

\* Two sing-box processes never compete for the ports: while the manager says
\* it is running, the process it launched is the only one that can be alive,
\* whatever earlier agents or an interrupted Stop left behind.
OnlyCurrentAlive == running => \A p \in Pid : Alive(p) => p = cmd

\* A healthy process of this agent is never taken for a crashed one or lost:
\* it is the one the manager holds and reports as running.  Stale monitors and
\* interleaved Reloads are what could break this (comment on generation).
HealthyIsTracked ==
    \A p \in Pid : ps[p] = "up" /\ mon[p] = "wait" => running /\ cmd = p

\* Stop is not undone by a monitor in its back-off: a process of this agent runs
\* only when a Start succeeded after the last Stop.
StopIsFinal == \A p \in Pid : ps[p] = "up" /\ mon[p] = "wait" => wanted

Supervised == \E p \in Pid : mon[p] = "backoff" /\ ~Stale(p)

\* Supervision ends in two ways only: a sing-box that nobody stopped and that is
\* not running is about to be restarted, or reported as given up, or the
\* monitor's own restart attempt has just returned an error.
SupervisedUnlessRestartFailed ==
    wanted /\ ~running => stopped \/ Supervised \/ restartFailed

\* The failure count is forgiven only for the process that is being supervised:
\* by its own settle timer, by disabling residential.json, or with the agent.
\* A timer of an earlier launch never hides the crashes of a later one.
ForgivenOnlyWhenSettled ==
    [][consecutiveFailures' < consecutiveFailures =>
          \/ residential /\ ~residential'
          \/ cmd # NoPid /\ settle[cmd] = "timing" /\ settle'[cmd] = "gone"
          \/ generation' = 0]_vars

\* A crash of a wanted process is followed by a new launch, by giving up, by a
\* failed restart or by a Stop (or the model's bound on launches is reached).
CrashIsHandled ==
    \A p \in Pid :
        (wanted /\ cmd = p /\ ps[p] = "exited")
            ~> (~wanted \/ stopped \/ restartFailed \/ cmd # p \/ launched = MaxLaunches)

\* A healthy process launched by this agent exists.
Up == \E p \in Pid : ps[p] = "up" /\ mon[p] = "wait"

Abstract == INSTANCE Supervisor WITH up <- Up, gaveUp <- stopped

\* The manager, with its generations, goroutines and overlapping calls, behaves
\* like the one-process supervisor its callers rely on.
RefinesSupervisor == Abstract!Spec

=============================================================================
