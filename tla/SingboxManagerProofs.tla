------------------------ MODULE SingboxManagerProofs ------------------------
(***************************************************************************)
(* Machine-checked proofs about the sing-box supervisor, for any number of *)
(* callers, any thresholds, any launch and generation bounds and any set   *)
(* of environment faults.                                                  *)
(***************************************************************************)
EXTENDS SingboxManager, TLAPS

\* Launch p still has a goroutine of this agent: its monitor or its settle timer.
Watched(p) == mon[p] \in {"wait", "backoff"} \/ settle[p] = "timing"

\* While running, cmd is the process the current generation launched and watches.
CurrentIsWatched ==
    running => /\ cmd \in Pid
               /\ mon[cmd] = "wait" /\ gen[cmd] = generation
               /\ ps[cmd] \in {"up", "exited"}
               /\ wanted

\* A monitor that waits for the current generation waits for cmd.
WaiterIsCurrent == \A p \in Pid : mon[p] = "wait" /\ gen[p] = generation => running /\ cmd = p

\* A monitor in the back-off of the current generation: nothing else was started.
BackoffIsIdle == \A p \in Pid : mon[p] = "backoff" /\ gen[p] = generation => ~running /\ wanted

\* Goroutines carry generations that were reached, each launch one of its own.
GenerationsPast == \A p \in Pid : Watched(p) => gen[p] <= generation
GenerationsDistinct ==
    \A p, q \in Pid : Watched(p) /\ Watched(q) /\ gen[p] = gen[q] => p = q

\* The inductive invariant: generations identify the one supervised process.
Inv ==
    /\ TypeOK
    /\ CurrentIsWatched
    /\ WaiterIsCurrent
    /\ BackoffIsIdle
    /\ GenerationsPast
    /\ GenerationsDistinct
    /\ HealthyIsTracked
    /\ OnlyCurrentAlive
    /\ SupervisedUnlessRestartFailed

-----------------------------------------------------------------------------
(* The parts of a step that several actions share.                         *)

\* m is mon as startLocked finds it: unchanged for a caller, and with the
\* monitor's own entry closed when a monitor restarts the process.
MonBefore(m) ==
    m = mon \/ \E p \in Pid : mon[p] = "backoff" /\ m = [mon EXCEPT ![p] = "gone"]

\* startLocked never opens a monitor, and closes only one in back-off.
LEMMA MonBeforeFacts ==
    ASSUME TypeOK, NEW m, MonBefore(m)
    PROVE  /\ m \in [Pid -> MonState]
           /\ \A p \in Pid : m[p] = mon[p] \/ (mon[p] = "backoff" /\ m[p] = "gone")
  BY DEF MonBefore, TypeOK, MonState

\* reapStrays leaves no process of the manager's command line alive.
LEMMA ReapKillsAll ==
    ASSUME TypeOK
    PROVE  /\ reapStrays \in [Pid -> PsState]
           /\ \A p \in Pid : reapStrays[p] \notin {"up", "doomed"}
  BY DEF reapStrays, TypeOK, PsState, Alive

\* A successful launch, by a caller or by a monitor, keeps every part of Inv.
LEMMA LaunchKeepsInv ==
    ASSUME Inv, NEW m, MonBefore(m), NEW q \in Pid, Launch(m, q),
           wanted' = TRUE, restartFailed' \in BOOLEAN, UNCHANGED files,
           caller' \in [Callers -> CallerState]
    PROVE  Inv'
  <1> USE ManagerConstants
  <1>1. TypeOK
    BY DEF Inv
  <1>2. m \in [Pid -> MonState]
    BY <1>1, MonBeforeFacts
  <1>3. \A p \in Pid : m[p] = mon[p] \/ (mon[p] = "backoff" /\ m[p] = "gone")
    BY <1>1, MonBeforeFacts
  <1>4. reapStrays \in [Pid -> PsState]
    BY <1>1, ReapKillsAll
  <1>5. \A p \in Pid : reapStrays[p] \notin {"up", "doomed"}
    BY <1>1, ReapKillsAll
  <1>6. TypeOK'
    BY <1>1, <1>2, <1>4
    DEF Launch, TypeOK, files, Pid, NoPid, PsState, MonState, SettleState
  <1>7. /\ running' /\ cmd' = q /\ generation' = generation + 1
        /\ mon'[q] = "wait" /\ gen'[q] = generation + 1 /\ ps'[q] = "up"
        /\ settle'[q] = "timing"
    BY <1>1, <1>2, <1>4 DEF Launch, TypeOK
  <1>8. \A p \in Pid : p # q =>
            /\ mon'[p] = m[p] /\ gen'[p] = gen[p] /\ ps'[p] = reapStrays[p]
            /\ settle'[p] = settle[p]
    BY <1>1, <1>2, <1>4 DEF Launch, TypeOK
  <1>9. \A p \in Pid : p # q /\ Watched(p)' => Watched(p)
    BY <1>3, <1>8 DEF Watched
  <1>10. generation \in Nat /\ \A p \in Pid : gen[p] \in Nat
    BY <1>1 DEF TypeOK
  <1>11. \A p \in Pid : p # q /\ Watched(p)' => gen'[p] < generation'
    BY <1>7, <1>8, <1>9, <1>10 DEF Inv, GenerationsPast
  <1>12. CurrentIsWatched'
    BY <1>7 DEF CurrentIsWatched
  <1>13. WaiterIsCurrent'
    BY <1>7, <1>10, <1>11 DEF WaiterIsCurrent, Watched
  <1>14. BackoffIsIdle'
    BY <1>7, <1>10, <1>11 DEF BackoffIsIdle, Watched
  <1>15. GenerationsPast'
    BY <1>7, <1>10, <1>11, <1>8 DEF GenerationsPast
  <1>16. GenerationsDistinct'
    <2>1. SUFFICES ASSUME NEW a \in Pid, NEW b \in Pid, Watched(a)', Watched(b)',
                          gen'[a] = gen'[b], a # b
                   PROVE  FALSE
      BY DEF GenerationsDistinct
    <2>2. CASE a = q
      BY <2>1, <2>2, <1>7, <1>10, <1>11, <1>8
    <2>3. CASE b = q
      BY <2>1, <2>3, <1>7, <1>10, <1>11, <1>8
    <2>4. CASE a # q /\ b # q
      BY <2>1, <2>4, <1>8, <1>9 DEF Inv, GenerationsDistinct
    <2> QED
      BY <2>2, <2>3, <2>4
  <1>17. HealthyIsTracked'
    BY <1>5, <1>7, <1>8 DEF HealthyIsTracked
  <1>18. OnlyCurrentAlive'
    BY <1>5, <1>7, <1>8 DEF OnlyCurrentAlive, Alive
  <1>19. SupervisedUnlessRestartFailed'
    BY <1>7 DEF SupervisedUnlessRestartFailed
  <1> QED
    BY <1>6, <1>12, <1>13, <1>14, <1>15, <1>16, <1>17, <1>18, <1>19 DEF Inv

\* A startLocked that returns an error keeps Inv, whoever called it; a monitor
\* that fails this way is recorded in restartFailed.
LEMMA StartErrKeepsInv ==
    ASSUME Inv, NEW m, MonBefore(m), StartErr(m), m = mon \/ restartFailed',
           wanted' = wanted, restartFailed' \in BOOLEAN, restartFailed => restartFailed',
           UNCHANGED files, caller' \in [Callers -> CallerState]
    PROVE  Inv'
  <1> USE ManagerConstants
  <1>1. TypeOK
    BY DEF Inv
  <1>2. m \in [Pid -> MonState]
    BY <1>1, MonBeforeFacts
  <1>3. \A p \in Pid : m[p] = mon[p] \/ (mon[p] = "backoff" /\ m[p] = "gone")
    BY <1>1, MonBeforeFacts
  <1>4. /\ mon' = m /\ settle' = settle /\ gen' = gen
        /\ running' = running /\ generation' = generation /\ stopped' = stopped
        /\ launched' = launched
        /\ consecutiveFailures' = consecutiveFailures
    BY DEF StartErr, StartRefused, StartExecFails, fields, os
  <1>5. ps' = ps \/ (~running /\ ps' = reapStrays)
    BY DEF StartErr, StartRefused, StartExecFails, os
  <1>6. cmd' = cmd \/ (~running /\ cmd' = NoPid)
    BY DEF StartErr, StartRefused, StartExecFails, fields
  <1>7. TypeOK'
    BY <1>1, <1>2, <1>4, <1>5, <1>6, ReapKillsAll DEF TypeOK, files
  <1>8. CurrentIsWatched'
    BY <1>1, <1>3, <1>4, <1>5, <1>6 DEF Inv, CurrentIsWatched
  <1>9. WaiterIsCurrent' /\ BackoffIsIdle'
    BY <1>3, <1>4, <1>5, <1>6 DEF Inv, WaiterIsCurrent, BackoffIsIdle
  <1>10. GenerationsPast' /\ GenerationsDistinct'
    BY <1>3, <1>4 DEF Inv, GenerationsPast, GenerationsDistinct, Watched
  <1>11. HealthyIsTracked'
    BY <1>1, <1>3, <1>4, <1>5, <1>6, ReapKillsAll DEF Inv, HealthyIsTracked
  <1>12. OnlyCurrentAlive'
    BY <1>4, <1>5, <1>6 DEF Inv, OnlyCurrentAlive, Alive
  <1>13. SupervisedUnlessRestartFailed'
    BY <1>4 DEF Inv, SupervisedUnlessRestartFailed, Supervised, Stale
  <1> QED
    BY <1>7, <1>8, <1>9, <1>10, <1>11, <1>12, <1>13 DEF Inv

\* Stop leaves every goroutine of an earlier generation stale.
LEMMA StopKeepsInv ==
    ASSUME Inv, stop, caller' \in [Callers -> CallerState]
    PROVE  Inv'
  <1> USE ManagerConstants
  <1>1. TypeOK
    BY DEF Inv
  <1>2. /\ running' = FALSE /\ generation' = generation + 1 /\ cmd' = NoPid
        /\ wanted' = FALSE /\ mon' = mon /\ settle' = settle /\ gen' = gen
    BY DEF stop
  <1>2a. /\ consecutiveFailures' = consecutiveFailures /\ stopped' = stopped
         /\ residential' = residential /\ installed' = installed
         /\ launched' = launched /\ restartFailed' = restartFailed
    BY DEF stop, files
  <1>3. /\ ps' \in [Pid -> PsState]
        /\ \A p \in Pid : ps'[p] = "up" => ps[p] = "up" /\ p # cmd
    <2>1. CASE cmd = NoPid
      BY <1>1, <2>1 DEF stop, TypeOK, Pid, NoPid
    <2>2. CASE cmd # NoPid
      BY <1>1, <2>2 DEF stop, TypeOK, PsState
    <2> QED
      BY <2>1, <2>2
  <1>4. TypeOK'
    <2>1. generation' \in Nat /\ consecutiveFailures' \in Nat /\ launched' \in 0 .. MaxLaunches
      BY <1>1, <1>2, <1>2a DEF TypeOK
    <2>2. cmd' \in Pid \cup {NoPid}
      BY <1>2
    <2> QED
      BY <1>1, <1>2, <1>2a, <1>3, <2>1, <2>2, Zenon DEF TypeOK
  <1>5. \A p \in Pid : Watched(p)' => gen'[p] < generation'
    BY <1>1, <1>2 DEF Inv, TypeOK, GenerationsPast, Watched
  <1>6. generation' \in Nat /\ \A p \in Pid : gen'[p] \in Nat
    BY <1>4 DEF TypeOK
  <1>7. CurrentIsWatched' /\ OnlyCurrentAlive' /\ SupervisedUnlessRestartFailed'
    BY <1>2 DEF CurrentIsWatched, OnlyCurrentAlive, SupervisedUnlessRestartFailed
  <1>8. WaiterIsCurrent' /\ BackoffIsIdle' /\ GenerationsPast'
    BY <1>5, <1>6 DEF WaiterIsCurrent, BackoffIsIdle, GenerationsPast, Watched
  <1>9. GenerationsDistinct'
    BY <1>2 DEF Inv, GenerationsDistinct, Watched
  <1>10. HealthyIsTracked'
    BY <1>2, <1>3 DEF Inv, HealthyIsTracked
  <1> QED
    BY <1>4, <1>7, <1>8, <1>9, <1>10 DEF Inv

-----------------------------------------------------------------------------
(* The initial states and every step of the manager.                       *)

\* A new Manager satisfies the invariant.
LEMMA InitInv == Init => Inv
  <1> SUFFICES ASSUME Init PROVE Inv
    OBVIOUS
  <1>1. TypeOK
    <2>1. launched \in 0 .. MaxLaunches /\ generation \in Nat /\ consecutiveFailures \in Nat
      BY ManagerConstants DEF Init
    <2>2. gen \in [Pid -> Nat]
      BY DEF Init
    <2> QED
      BY <2>1, <2>2, Zenon DEF Init, TypeOK, PsState, MonState, SettleState, CallerState
  <1>2. /\ CurrentIsWatched /\ WaiterIsCurrent /\ BackoffIsIdle
        /\ GenerationsPast /\ GenerationsDistinct
    BY DEF Init, CurrentIsWatched, WaiterIsCurrent, BackoffIsIdle, GenerationsPast,
           GenerationsDistinct, Watched
  <1>3. HealthyIsTracked /\ OnlyCurrentAlive /\ SupervisedUnlessRestartFailed
    BY DEF Init, HealthyIsTracked, OnlyCurrentAlive, SupervisedUnlessRestartFailed
  <1> QED
    BY <1>1, <1>2, <1>3 DEF Inv

\* The calls: Start, Stop and the three sections of Reload.
LEMMA CallerKeepsInv ==
    ASSUME Inv, NEW c \in Callers,
           Start(c) \/ Stop(c) \/ ReloadCheck(c) \/ ReloadStop(c) \/ ReloadStart(c)
    PROVE  Inv'
  <1>1. TypeOK
    BY DEF Inv
  <1>2. caller' \in [Callers -> CallerState]
    BY <1>1 DEF TypeOK, CallerState, Start, Stop, ReloadCheck, ReloadStop, ReloadStart
  <1>3. MonBefore(mon)
    BY DEF MonBefore
  <1>4. ASSUME startLocked, UNCHANGED files PROVE Inv'
    <2>1. CASE StartErr(mon) /\ UNCHANGED ghosts
      BY <1>1, <1>2, <1>3, <1>4, <2>1, StartErrKeepsInv DEF ghosts, TypeOK
    <2>2. CASE StartOk(mon) /\ wanted' = TRUE /\ restartFailed' = FALSE
      BY <1>2, <1>3, <1>4, <2>2, LaunchKeepsInv DEF StartOk
    <2> QED
      BY <1>4, <2>1, <2>2 DEF startLocked
  <1>5. CASE Start(c) \/ ReloadStart(c)
    BY <1>4, <1>5 DEF Start, ReloadStart, files
  <1>6. CASE Stop(c) \/ ReloadStop(c)
    BY <1>2, <1>6, StopKeepsInv DEF Stop, ReloadStop
  <1>7. CASE ReloadCheck(c)
    <2>1. UNCHANGED <<fields, files, os, mon, settle, gen, ghosts>>
      BY <1>7 DEF ReloadCheck
    <2>2. TypeOK'
      BY <1>1, <1>2, <2>1 DEF TypeOK, fields, files, os, ghosts
    <2> QED
      BY <2>1, <2>2 DEF Inv, fields, os, ghosts, CurrentIsWatched, WaiterIsCurrent,
         BackoffIsIdle, GenerationsPast, GenerationsDistinct, Watched, HealthyIsTracked,
         OnlyCurrentAlive, Alive, SupervisedUnlessRestartFailed, Supervised, Stale
  <1> QED
    BY <1>5, <1>6, <1>7

\* A superseded monitor changes nothing but itself.
LEMMA MonitorStaleKeepsInv ==
    ASSUME Inv, NEW p \in Pid, MonitorStale(p)
    PROVE  Inv'
  <1>1. TypeOK
    BY DEF Inv
  <1>2. UNCHANGED <<fields, files, os, settle, gen, caller, ghosts>>
    BY DEF MonitorStale
  <1>3. mon[p] = "wait" /\ gen[p] # generation /\ mon' = [mon EXCEPT ![p] = "gone"]
    BY DEF MonitorStale, Stale
  <1>4. mon' \in [Pid -> MonState]
    BY <1>1, <1>3 DEF TypeOK, MonState
  <1>5. \A q \in Pid : (q # p /\ mon'[q] = mon[q]) \/ (q = p /\ mon'[q] = "gone")
    BY <1>1, <1>3 DEF TypeOK
  <1>6. TypeOK'
    BY <1>1, <1>2, <1>4 DEF TypeOK, fields, files, os, ghosts
  <1>7. CurrentIsWatched' /\ WaiterIsCurrent' /\ BackoffIsIdle'
    BY <1>2, <1>3, <1>5 DEF Inv, CurrentIsWatched, WaiterIsCurrent, BackoffIsIdle,
       fields, os, ghosts
  <1>8. GenerationsPast' /\ GenerationsDistinct'
    BY <1>2, <1>5 DEF Inv, GenerationsPast, GenerationsDistinct, Watched, fields
  <1>9. HealthyIsTracked' /\ OnlyCurrentAlive'
    BY <1>2, <1>5 DEF Inv, HealthyIsTracked, OnlyCurrentAlive, Alive, fields, os
  <1>10. SupervisedUnlessRestartFailed'
    BY <1>2, <1>3, <1>5 DEF Inv, SupervisedUnlessRestartFailed, Supervised, Stale, fields, ghosts
  <1> QED
    BY <1>6, <1>7, <1>8, <1>9, <1>10 DEF Inv

\* The monitor of the current process sees it crash: back off, or give up.
LEMMA MonitorCrashKeepsInv ==
    ASSUME Inv, NEW p \in Pid, MonitorCrash(p)
    PROVE  Inv'
  <1> USE ManagerConstants
  <1>1. TypeOK
    BY DEF Inv
  <1>2. /\ UNCHANGED <<generation, cmd, installed, os, settle, gen, caller, ghosts>>
        /\ running' = FALSE
    BY DEF MonitorCrash
  <1>3. mon[p] = "wait" /\ ps[p] = "exited" /\ gen[p] = generation
    BY DEF MonitorCrash, Stale
  <1>4. running /\ cmd = p /\ wanted
    BY <1>3 DEF Inv, WaiterIsCurrent, CurrentIsWatched
  <1>5. PICK disable \in BOOLEAN :
            LET failures == IF disable THEN 1 ELSE consecutiveFailures + 1
                giveUp   == failures >= MaxConsecutiveFailures
            IN  /\ residential' = (residential /\ ~disable)
                /\ consecutiveFailures' = IF disable THEN 0 ELSE failures
                /\ stopped' = (stopped \/ giveUp)
                /\ mon' = [mon EXCEPT ![p] = IF giveUp THEN "gone" ELSE "backoff"]
    BY DEF MonitorCrash
  <1>6. stopped' \/ mon' = [mon EXCEPT ![p] = "backoff"]
    BY <1>5
  <1>7. /\ mon' \in [Pid -> MonState]
        /\ \A q \in Pid : q # p => mon'[q] = mon[q]
        /\ mon'[p] \in {"gone", "backoff"}
    BY <1>1, <1>5 DEF TypeOK, MonState
  <1>8. TypeOK'
    <2>1. consecutiveFailures' \in Nat
      BY <1>1, <1>5 DEF TypeOK
    <2>2. residential' \in BOOLEAN /\ stopped' \in BOOLEAN
      BY <1>5
    <2> QED
      BY <1>1, <1>2, <1>7, <2>1, <2>2, Zenon DEF TypeOK, os, ghosts
  <1>9. CurrentIsWatched' /\ OnlyCurrentAlive'
    BY <1>2 DEF CurrentIsWatched, OnlyCurrentAlive
  <1>10. WaiterIsCurrent'
    BY <1>2, <1>4, <1>7 DEF Inv, WaiterIsCurrent
  <1>11. BackoffIsIdle'
    BY <1>2, <1>4, <1>7 DEF Inv, BackoffIsIdle, ghosts
  <1>12. GenerationsPast' /\ GenerationsDistinct'
    <2>1. \A q \in Pid : Watched(q)' => Watched(q)
      BY <1>2, <1>3, <1>7 DEF Watched
    <2> QED
      BY <1>2, <2>1 DEF Inv, GenerationsPast, GenerationsDistinct
  <1>13. HealthyIsTracked'
    BY <1>2, <1>4, <1>7 DEF Inv, HealthyIsTracked, os
  <1>14. SupervisedUnlessRestartFailed'
    <2>1. CASE stopped'
      BY <2>1 DEF SupervisedUnlessRestartFailed
    <2>2. CASE mon' = [mon EXCEPT ![p] = "backoff"]
      <3>1. mon'[p] = "backoff" /\ gen'[p] = generation'
        BY <1>1, <1>2, <1>3, <2>2 DEF TypeOK
      <3> QED
        BY <3>1 DEF SupervisedUnlessRestartFailed, Supervised, Stale
    <2> QED
      BY <1>6, <2>1, <2>2
  <1> QED
    BY <1>8, <1>9, <1>10, <1>11, <1>12, <1>13, <1>14 DEF Inv

\* The end of a back-off: only a monitor of the current generation restarts.
LEMMA MonitorRestartKeepsInv ==
    ASSUME Inv, NEW p \in Pid, MonitorRestart(p)
    PROVE  Inv'
  <1> DEFINE m == [mon EXCEPT ![p] = "gone"]
  <1>1. TypeOK
    BY DEF Inv
  <1>2. mon[p] = "backoff" /\ UNCHANGED <<files, caller, wanted>>
    BY DEF MonitorRestart
  <1>3. MonBefore(m)
    BY <1>2 DEF MonBefore
  <1>4. caller' \in [Callers -> CallerState]
    BY <1>1, <1>2 DEF TypeOK
  <1>5. CASE Stale(p)
    <2>1. mon' = m /\ UNCHANGED <<fields, os, settle, gen, restartFailed>>
      BY <1>5 DEF MonitorRestart
    <2>2. \A q \in Pid : (q # p /\ mon'[q] = mon[q]) \/ (q = p /\ mon'[q] = "gone")
      BY <1>1, <2>1 DEF TypeOK
    <2>3. mon' \in [Pid -> MonState]
      BY <1>1, <2>1 DEF TypeOK, MonState
    <2>4. TypeOK'
      BY <1>1, <1>2, <2>1, <2>3 DEF TypeOK, fields, files, os
    <2>5. CurrentIsWatched' /\ WaiterIsCurrent' /\ BackoffIsIdle'
      BY <1>2, <2>1, <2>2 DEF Inv, CurrentIsWatched, WaiterIsCurrent, BackoffIsIdle, fields, os
    <2>6. GenerationsPast' /\ GenerationsDistinct'
      BY <2>1, <2>2 DEF Inv, GenerationsPast, GenerationsDistinct, Watched, fields
    <2>7. HealthyIsTracked' /\ OnlyCurrentAlive'
      BY <2>1, <2>2 DEF Inv, HealthyIsTracked, OnlyCurrentAlive, Alive, fields, os
    <2>8. SupervisedUnlessRestartFailed'
      BY <1>2, <1>5, <2>1, <2>2 DEF Inv, SupervisedUnlessRestartFailed, Supervised, Stale, fields
    <2> QED
      BY <2>4, <2>5, <2>6, <2>7, <2>8 DEF Inv
  <1>6. CASE ~Stale(p)
    <2>1. wanted
      BY <1>2, <1>6 DEF Inv, BackoffIsIdle, Stale
    <2>2. CASE StartErr(m) /\ restartFailed' = TRUE
      BY <1>2, <1>3, <1>4, <2>2, StartErrKeepsInv
    <2>3. CASE StartOk(m) /\ restartFailed' = FALSE
      <3>1. PICK q \in Pid : Launch(m, q)
        BY <2>3 DEF StartOk
      <3>2. wanted' = TRUE
        BY <1>1, <1>2, <2>1 DEF TypeOK
      <3>3. restartFailed' \in BOOLEAN
        BY <2>3
      <3> QED
        BY <1>2, <1>3, <1>4, <3>1, <3>2, <3>3, LaunchKeepsInv
    <2> QED
      BY <1>6, <2>2, <2>3 DEF MonitorRestart
  <1> QED
    BY <1>5, <1>6

\* Timers, process exits, file changes and the death of the agent.
LEMMA OtherKeepsInv ==
    ASSUME Inv,
           \/ \E p \in Pid : Settle(p) \/ Exit(p)
           \/ WriteResidential \/ Install \/ AgentRestart
    PROVE  Inv'
  <1>1. TypeOK
    BY DEF Inv
  <1>2. ASSUME NEW p \in Pid, Settle(p) PROVE Inv'
    <2>1. UNCHANGED <<running, generation, cmd, files, os, mon, gen, caller, ghosts>>
      BY <1>2 DEF Settle
    <2>2. settle' = [settle EXCEPT ![p] = "gone"]
      BY <1>2 DEF Settle
    <2>3. /\ settle' \in [Pid -> SettleState]
          /\ \A q \in Pid : settle'[q] = "timing" => settle[q] = "timing"
      BY <1>1, <2>2 DEF TypeOK, SettleState
    <2>4. (consecutiveFailures' = consecutiveFailures /\ stopped' = stopped)
          \/ (running /\ consecutiveFailures' = 0 /\ stopped' = FALSE)
      BY <1>2 DEF Settle
    <2>5. TypeOK'
      <3>1. consecutiveFailures' \in Nat
        BY <1>1, <2>4 DEF TypeOK
      <3>2. stopped' \in BOOLEAN
        BY <1>1, <2>4 DEF TypeOK
      <3> QED
        BY <1>1, <2>1, <2>3, <3>1, <3>2, Zenon DEF TypeOK, files, os, ghosts
    <2>6. CurrentIsWatched' /\ WaiterIsCurrent' /\ BackoffIsIdle'
      BY <2>1 DEF Inv, CurrentIsWatched, WaiterIsCurrent, BackoffIsIdle, os, ghosts
    <2>7. GenerationsPast' /\ GenerationsDistinct'
      BY <2>1, <2>3 DEF Inv, GenerationsPast, GenerationsDistinct, Watched
    <2>8. HealthyIsTracked' /\ OnlyCurrentAlive'
      BY <2>1 DEF Inv, HealthyIsTracked, OnlyCurrentAlive, Alive, os
    <2>9. SupervisedUnlessRestartFailed'
      BY <2>1, <2>4 DEF Inv, SupervisedUnlessRestartFailed, Supervised, Stale, ghosts
    <2> QED
      BY <2>5, <2>6, <2>7, <2>8, <2>9 DEF Inv
  <1>3. ASSUME NEW p \in Pid, Exit(p) PROVE Inv'
    <2>1. UNCHANGED <<fields, files, launched, mon, settle, gen, caller, ghosts>>
      BY <1>3 DEF Exit
    <2>2. ps' = [ps EXCEPT ![p] = "exited"]
      BY <1>3 DEF Exit
    <2>3. /\ ps' \in [Pid -> PsState]
          /\ \A q \in Pid : ps'[q] = ps[q] \/ ps'[q] = "exited"
      BY <1>1, <2>2 DEF TypeOK, PsState
    <2>4. TypeOK'
      BY <1>1, <2>1, <2>3 DEF TypeOK, fields, files, ghosts
    <2>5. CurrentIsWatched' /\ WaiterIsCurrent' /\ BackoffIsIdle'
      BY <2>1, <2>3 DEF Inv, CurrentIsWatched, WaiterIsCurrent, BackoffIsIdle, fields, ghosts
    <2>6. GenerationsPast' /\ GenerationsDistinct'
      BY <2>1 DEF Inv, GenerationsPast, GenerationsDistinct, Watched, fields
    <2>7. HealthyIsTracked' /\ OnlyCurrentAlive'
      BY <2>1, <2>3 DEF Inv, HealthyIsTracked, OnlyCurrentAlive, Alive, fields
    <2>8. SupervisedUnlessRestartFailed'
      BY <2>1 DEF Inv, SupervisedUnlessRestartFailed, Supervised, Stale, fields, ghosts
    <2> QED
      BY <2>4, <2>5, <2>6, <2>7, <2>8 DEF Inv
  <1>4. CASE WriteResidential \/ Install
    <2>1. UNCHANGED <<fields, os, mon, settle, gen, caller, ghosts>>
      BY <1>4 DEF WriteResidential, Install
    <2>2. residential' \in BOOLEAN /\ installed' \in BOOLEAN
      BY <1>1, <1>4 DEF WriteResidential, Install, TypeOK
    <2>3. TypeOK'
      BY <1>1, <2>1, <2>2 DEF TypeOK, fields, os, ghosts
    <2> QED
      BY <2>1, <2>3 DEF Inv, fields, os, ghosts, CurrentIsWatched, WaiterIsCurrent,
         BackoffIsIdle, GenerationsPast, GenerationsDistinct, Watched, HealthyIsTracked,
         OnlyCurrentAlive, Alive, SupervisedUnlessRestartFailed, Supervised, Stale
  <1>5. CASE AgentRestart
    <2>1. /\ running' = FALSE /\ generation' = 0 /\ consecutiveFailures' = 0
          /\ stopped' = FALSE /\ cmd' = NoPid /\ wanted' = FALSE /\ restartFailed' = FALSE
          /\ UNCHANGED <<files, os>>
      BY <1>5 DEF AgentRestart
    <2>2. /\ mon' = [p \in Pid |-> "gone"] /\ settle' = [p \in Pid |-> "gone"]
          /\ caller' = [c \in Callers |-> "idle"] /\ gen' = [p \in Pid |-> 0]
      BY <1>5 DEF AgentRestart
    <2>3. gen' \in [Pid -> Nat] /\ generation' \in Nat /\ consecutiveFailures' \in Nat
      BY <2>1, <2>2
    <2>4. /\ mon' \in [Pid -> MonState] /\ settle' \in [Pid -> SettleState]
          /\ caller' \in [Callers -> CallerState]
      BY <2>2 DEF MonState, SettleState, CallerState
    <2>5. TypeOK'
      BY <1>1, <2>1, <2>3, <2>4, Zenon DEF TypeOK, files, os
    <2>6. /\ CurrentIsWatched' /\ WaiterIsCurrent' /\ BackoffIsIdle'
          /\ GenerationsPast' /\ GenerationsDistinct'
      BY <2>1, <2>2 DEF CurrentIsWatched, WaiterIsCurrent, BackoffIsIdle, GenerationsPast,
         GenerationsDistinct, Watched
    <2>7. HealthyIsTracked' /\ OnlyCurrentAlive' /\ SupervisedUnlessRestartFailed'
      BY <2>1, <2>2 DEF HealthyIsTracked, OnlyCurrentAlive, SupervisedUnlessRestartFailed
    <2> QED
      BY <2>5, <2>6, <2>7 DEF Inv
  <1> QED
    BY <1>2, <1>3, <1>4, <1>5

\* Every step of the manager and of its environment keeps the invariant.
LEMMA NextKeepsInv == Inv /\ [Next]_vars => Inv'
  <1> SUFFICES ASSUME Inv, [Next]_vars PROVE Inv'
    OBVIOUS
  <1>1. CASE UNCHANGED vars
    BY <1>1 DEF vars, Inv, TypeOK, fields, files, os, ghosts, CurrentIsWatched,
       WaiterIsCurrent, BackoffIsIdle, GenerationsPast, GenerationsDistinct, Watched,
       HealthyIsTracked, OnlyCurrentAlive, Alive, SupervisedUnlessRestartFailed,
       Supervised, Stale
  <1>2. CASE Next
    BY <1>2, CallerKeepsInv, MonitorStaleKeepsInv, MonitorCrashKeepsInv,
       MonitorRestartKeepsInv, OtherKeepsInv DEF Next
  <1> QED
    BY <1>1, <1>2

-----------------------------------------------------------------------------
(* The theorems.                                                           *)

\* The inductive invariant holds in every reachable state.
THEOREM InvAlways == Spec => []Inv
  <1>1. Init => Inv
    BY InitInv
  <1>2. Inv /\ [Next]_vars => Inv'
    BY NextKeepsInv
  <1> QED
    BY <1>1, <1>2, PTL DEF Spec

\* Type correctness of the manager.
THEOREM TypeCorrect == Spec => []TypeOK
  <1>1. Inv => TypeOK
    BY DEF Inv
  <1> QED
    BY <1>1, InvAlways, PTL

\* While the manager reports running, no second sing-box can be alive
\* (Manager.startLocked reaps, Manager.monitor checks its generation).
THEOREM SingleProcess == Spec => []OnlyCurrentAlive
  <1>1. Inv => OnlyCurrentAlive
    BY DEF Inv
  <1> QED
    BY <1>1, InvAlways, PTL

\* No stale monitor, timer or overlapping Reload makes the manager lose track of
\* a healthy process (Manager.monitor, Manager.Stop, Manager.Reload).
THEOREM NeverLosesProcess == Spec => []HealthyIsTracked
  <1>1. Inv => HealthyIsTracked
    BY DEF Inv
  <1> QED
    BY <1>1, InvAlways, PTL

\* A back-off that outlives a Stop does not bring sing-box back (Manager.Stop).
THEOREM StopNotUndone == Spec => []StopIsFinal
  <1>1. Inv => StopIsFinal
    BY DEF Inv, StopIsFinal, HealthyIsTracked, CurrentIsWatched
  <1> QED
    BY <1>1, InvAlways, PTL

\* Supervision ends by Stop, by giving up or by a failed restart only
\* (Manager.monitor).
THEOREM SupervisionKept == Spec => []SupervisedUnlessRestartFailed
  <1>1. Inv => SupervisedUnlessRestartFailed
    BY DEF Inv
  <1> QED
    BY <1>1, InvAlways, PTL

\* The failure count of the supervised process is never cleared by the timer of
\* an earlier launch (the settle goroutine of Manager.startLocked).
THEOREM ForgivenessIsEarned == Spec => ForgivenOnlyWhenSettled
  <1> DEFINE Earned ==
        consecutiveFailures' < consecutiveFailures =>
          \/ residential /\ ~residential'
          \/ cmd # NoPid /\ settle[cmd] = "timing" /\ settle'[cmd] = "gone"
          \/ generation' = 0
  <1>1. Inv /\ [Next]_vars => [Earned]_vars
    <2> SUFFICES ASSUME Inv, Next, consecutiveFailures' < consecutiveFailures
                 PROVE  \/ residential /\ ~residential'
                        \/ cmd # NoPid /\ settle[cmd] = "timing" /\ settle'[cmd] = "gone"
                        \/ generation' = 0
      OBVIOUS
    <2>1. TypeOK
      BY DEF Inv
    <2>2. consecutiveFailures' # consecutiveFailures
      BY <2>1 DEF TypeOK
    <2>3. ASSUME NEW p \in Pid, Settle(p)
          PROVE  cmd # NoPid /\ settle[cmd] = "timing" /\ settle'[cmd] = "gone"
      <3>1. settle[p] = "timing" /\ settle' = [settle EXCEPT ![p] = "gone"]
        BY <2>3 DEF Settle
      <3>2. gen[p] = generation /\ running
        BY <2>2, <2>3 DEF Settle, Stale
      <3>3. p = cmd
        BY <3>1, <3>2 DEF Inv, CurrentIsWatched, GenerationsDistinct, Watched
      <3> QED
        BY <2>1, <3>1, <3>3 DEF TypeOK, Pid, NoPid
    <2>4. ASSUME NEW p \in Pid, MonitorCrash(p) PROVE residential /\ ~residential'
      <3>1. PICK disable \in BOOLEAN :
              LET failures == IF disable THEN 1 ELSE consecutiveFailures + 1
              IN  /\ disable => residential
                  /\ residential' = (residential /\ ~disable)
                  /\ consecutiveFailures' = IF disable THEN 0 ELSE failures
        BY <2>4 DEF MonitorCrash
      <3>2. disable
        BY <2>1, <3>1 DEF TypeOK
      <3> QED
        BY <3>1, <3>2
    <2>5. ASSUME AgentRestart PROVE generation' = 0
      BY <2>5 DEF AgentRestart
    <2>6. ASSUME NEW c \in Callers,
                 Start(c) \/ Stop(c) \/ ReloadCheck(c) \/ ReloadStop(c) \/ ReloadStart(c)
          PROVE  FALSE
      BY <2>2, <2>6 DEF Start, Stop, ReloadCheck, ReloadStop, ReloadStart, stop, startLocked,
         StartErr, StartOk, StartRefused, StartExecFails, Launch, fields
    <2>7. ASSUME NEW p \in Pid, MonitorStale(p) \/ MonitorRestart(p) \/ Exit(p)
          PROVE  FALSE
      BY <2>2, <2>7 DEF MonitorStale, MonitorRestart, Exit, StartErr, StartOk, StartRefused,
         StartExecFails, Launch, fields
    <2>8. ASSUME WriteResidential \/ Install PROVE FALSE
      BY <2>2, <2>8 DEF WriteResidential, Install, fields
    <2> QED
      BY <2>3, <2>4, <2>5, <2>6, <2>7, <2>8 DEF Next
  <1> QED
    BY <1>1, InvAlways, PTL DEF Spec, ForgivenOnlyWhenSettled

-----------------------------------------------------------------------------
(* The manager implements the abstract supervisor.                         *)

\* A launch brings a process up, and none was up before.
LEMMA LaunchMapsUp ==
    ASSUME Inv, NEW m, MonBefore(m), NEW q \in Pid, Launch(m, q)
    PROVE  ~Up /\ Up' /\ stopped' = stopped
  <1>1. m \in [Pid -> MonState] /\ TypeOK
    BY MonBeforeFacts DEF Inv
  <1>2. ps'[q] = "up" /\ mon'[q] = "wait"
    BY <1>1, ReapKillsAll DEF Launch, TypeOK
  <1>3. ~running /\ stopped' = stopped
    BY DEF Launch
  <1> QED
    BY <1>2, <1>3 DEF Up, Inv, HealthyIsTracked

\* A start that fails leaves the abstract state alone.
LEMMA StartErrMapsStutter ==
    ASSUME Inv, NEW m, MonBefore(m), StartErr(m)
    PROVE  Up' = Up /\ stopped' = stopped
  <1>1. TypeOK
    BY DEF Inv
  <1>2. \A p \in Pid : m[p] = "wait" <=> mon[p] = "wait"
    BY <1>1, MonBeforeFacts
  <1>3. mon' = m /\ stopped' = stopped
    BY DEF StartErr, StartRefused, StartExecFails, fields
  <1>4. CASE ps' = ps
    BY <1>2, <1>3, <1>4 DEF Up
  <1>5. CASE ~running /\ ps' = reapStrays
    <2>1. ~Up
      BY <1>5 DEF Up, Inv, HealthyIsTracked
    <2>2. ~Up'
      BY <1>1, <1>5, ReapKillsAll DEF Up
    <2> QED
      BY <1>3, <2>1, <2>2 DEF Up
  <1> QED
    BY <1>4, <1>5 DEF StartErr, StartRefused, StartExecFails, os

\* The calls map to Start and Stop of the abstract supervisor, or to stuttering.
LEMMA CallerMaps ==
    ASSUME Inv, NEW c \in Callers,
           Start(c) \/ Stop(c) \/ ReloadCheck(c) \/ ReloadStop(c) \/ ReloadStart(c)
    PROVE  Abstract!Next \/ UNCHANGED <<wanted, Up, stopped>>
  <1>1. MonBefore(mon)
    BY DEF MonBefore
  <1>2. CASE startLocked
    <2>1. CASE StartErr(mon) /\ UNCHANGED ghosts
      BY <1>1, <2>1, StartErrMapsStutter DEF ghosts
    <2>2. CASE StartOk(mon) /\ wanted' = TRUE
      <3>1. Abstract!Start
        BY <1>1, <2>2, LaunchMapsUp DEF StartOk, Abstract!Start
      <3> QED
        BY <3>1 DEF Abstract!Next
    <2> QED
      BY <1>2, <2>1, <2>2 DEF startLocked
  <1>3. CASE stop
    <2>1. Inv'
      BY CallerKeepsInv
    <2>2. ~Up' /\ wanted' = FALSE /\ stopped' = stopped
      BY <1>3, <2>1 DEF stop, Up, Inv, HealthyIsTracked
    <2>3. Abstract!Stop
      BY <2>2 DEF Abstract!Stop
    <2> QED
      BY <2>3 DEF Abstract!Next
  <1>4. CASE ReloadCheck(c)
    BY <1>4 DEF ReloadCheck, fields, os, ghosts, Up
  <1> QED
    BY <1>2, <1>3, <1>4 DEF Start, Stop, ReloadStop, ReloadStart

\* The goroutines of a launch map to Restart, GiveUp and Recover, or to stuttering.
LEMMA GoroutineMaps ==
    ASSUME Inv, NEW p \in Pid,
           MonitorStale(p) \/ MonitorCrash(p) \/ MonitorRestart(p) \/ Settle(p)
    PROVE  Abstract!Next \/ UNCHANGED <<wanted, Up, stopped>>
  <1>1. TypeOK
    BY DEF Inv
  <1>2. CASE MonitorStale(p)
    <2>1. \A q \in Pid : ps[q] = "up" => mon'[q] = mon[q]
      BY <1>1, <1>2 DEF MonitorStale, TypeOK
    <2> QED
      BY <1>2, <2>1 DEF MonitorStale, fields, os, ghosts, Up
  <1>3. CASE MonitorCrash(p)
    <2>1. \A q \in Pid : ps[q] = "up" => mon'[q] = mon[q]
      BY <1>1, <1>3 DEF MonitorCrash, TypeOK
    <2>2. running /\ cmd = p /\ ps[p] = "exited" /\ wanted
      BY <1>3 DEF MonitorCrash, Stale, Inv, WaiterIsCurrent, CurrentIsWatched
    <2>3. Up' = Up /\ ~Up /\ wanted' = wanted
      BY <1>3, <2>1, <2>2 DEF MonitorCrash, os, ghosts, Up, Inv, HealthyIsTracked
    <2>4. stopped' = TRUE \/ stopped' = stopped
      BY <1>1, <1>3 DEF MonitorCrash, TypeOK
    <2>5. CASE stopped' = TRUE
      <3>1. Abstract!GiveUp
        BY <2>2, <2>3, <2>5 DEF Abstract!GiveUp
      <3> QED
        BY <3>1 DEF Abstract!Next
    <2> QED
      BY <2>3, <2>4, <2>5
  <1>4. CASE MonitorRestart(p)
    <2> DEFINE m == [mon EXCEPT ![p] = "gone"]
    <2>1. MonBefore(m) /\ wanted' = wanted
      BY <1>4 DEF MonitorRestart, MonBefore
    <2>2. CASE Stale(p)
      <3>1. \A q \in Pid : (mon'[q] = "wait" <=> mon[q] = "wait")
        BY <1>1, <1>4, <2>2 DEF MonitorRestart, TypeOK
      <3> QED
        BY <1>4, <2>1, <2>2, <3>1 DEF MonitorRestart, fields, os, Up
    <2>3. CASE ~Stale(p) /\ StartErr(m)
      BY <2>1, <2>3, StartErrMapsStutter
    <2>4. CASE ~Stale(p) /\ StartOk(m)
      <3>1. wanted
        BY <1>4, <2>4 DEF MonitorRestart, Stale, Inv, BackoffIsIdle
      <3>2. Abstract!Restart
        BY <2>1, <2>4, <3>1, LaunchMapsUp DEF StartOk, Abstract!Restart
      <3> QED
        BY <3>2 DEF Abstract!Next
    <2> QED
      BY <1>4, <2>2, <2>3, <2>4 DEF MonitorRestart
  <1>5. CASE Settle(p)
    <2>1. Up' = Up /\ wanted' = wanted
      BY <1>5 DEF Settle, os, ghosts, Up
    <2>2. CASE running /\ stopped' = FALSE
      <3>1. wanted
        BY <2>2 DEF Inv, CurrentIsWatched
      <3>2. Abstract!Recover
        BY <2>1, <2>2, <3>1 DEF Abstract!Recover
      <3> QED
        BY <3>2 DEF Abstract!Next
    <2> QED
      BY <1>5, <2>1, <2>2 DEF Settle
  <1> QED
    BY <1>2, <1>3, <1>4, <1>5

\* The environment maps to Crash and Forget, or to stuttering.
LEMMA EnvironmentMaps ==
    ASSUME Inv,
           \/ \E p \in Pid : Exit(p)
           \/ WriteResidential \/ Install \/ AgentRestart
    PROVE  Abstract!Next \/ UNCHANGED <<wanted, Up, stopped>>
  <1>1. TypeOK
    BY DEF Inv
  <1>2. ASSUME NEW p \in Pid, Exit(p)
        PROVE  Abstract!Next \/ UNCHANGED <<wanted, Up, stopped>>
    <2>1. wanted' = wanted /\ stopped' = stopped /\ mon' = mon
      BY <1>2 DEF Exit, fields, ghosts
    <2>2. \A q \in Pid : ps'[q] = "up" => ps[q] = "up"
      BY <1>1, <1>2 DEF Exit, TypeOK
    <2>3. Up' => Up
      BY <2>1, <2>2 DEF Up
    <2>4. CASE Up /\ ~Up'
      <3>1. Abstract!Crash
        BY <2>1, <2>4 DEF Abstract!Crash, Up
      <3> QED
        BY <3>1 DEF Abstract!Next
    <2>5. CASE Up' = Up
      BY <2>1, <2>5
    <2> QED
      BY <2>3, <2>4, <2>5 DEF Up
  <1>3. CASE WriteResidential \/ Install
    BY <1>3 DEF WriteResidential, Install, fields, os, ghosts, Up
  <1>4. CASE AgentRestart
    <2>1. ~Up' /\ wanted' = FALSE /\ stopped' = FALSE
      BY <1>4 DEF AgentRestart, Up
    <2>2. Abstract!Forget
      BY <2>1 DEF Abstract!Forget, Up
    <2> QED
      BY <2>2 DEF Abstract!Next
  <1> QED
    BY <1>2, <1>3, <1>4

\* The manager implements the abstract supervisor: what its callers see is one
\* process that is started, crashes, is restarted while wanted, and is stopped.
THEOREM ImplementsSupervisor == Spec => RefinesSupervisor
  <1>1. Init => Abstract!Init
    BY DEF Init, Abstract!Init, Up
  <1>2. Inv /\ [Next]_vars => [Abstract!Next]_(Abstract!vars)
    <2> SUFFICES ASSUME Inv, [Next]_vars
                 PROVE  Abstract!Next \/ UNCHANGED <<wanted, Up, stopped>>
      BY DEF Abstract!vars
    <2>1. CASE UNCHANGED vars
      BY <2>1 DEF vars, fields, os, ghosts, Up
    <2>2. CASE Next
      BY <2>2, CallerMaps, GoroutineMaps, EnvironmentMaps DEF Next
    <2> QED
      BY <2>1, <2>2
  <1> QED
    BY <1>1, <1>2, InvAlways, PTL DEF Spec, RefinesSupervisor, Abstract!Spec

=============================================================================
