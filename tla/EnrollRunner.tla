---------------------------- MODULE EnrollRunner ----------------------------
(***************************************************************************)
(* The outbound channel of an enrolled node (internal/enroll): the long    *)
(* poll of Runner.Run, the command Executor with its replay cache, the     *)
(* self-upgrade with its backup and rollback, and node revocation.         *)
(*                                                                         *)
(* The Runner is one goroutine, so a poll and its answer are one step; the *)
(* network may lose the request or the answer.  The commands of an answer  *)
(* are executed one by one and the agent may die between any two steps and *)
(* between the renames of an upgrade; systemd then starts whatever binary  *)
(* is at the executable path.  A boot_id_conflict answer changes nothing   *)
(* (sleep and retry) and is a stuttering step.                             *)
(***************************************************************************)
EXTENDS Naturals, Sequences, FiniteSets

CONSTANTS
    Commands,          \* command ids the backend may queue
    Type,              \* Type[c]: the kind of command c, one of CmdTypes
    ReleaseTag,        \* ReleaseTag[c]: target version of an upgrade_agent command
    Versions,          \* release versions, ordered as numbers
    BadVersions,       \* releases that cannot reach the backend
    FirstVersion,      \* the version the node was installed with
    UpgradeEnabled,    \* OBOX_HOSTED and a known executable path (EnableUpgrade)
    MaxRecent,         \* maxRecent (200 in the code): size of the replay cache
    RollbackThreshold, \* threshold of shouldRollback (3 in the code)
    MaxCrashes,        \* bound: unplanned deaths of the agent
    MaxRuns            \* bound: deliveries stop once a boot executed a command so often

\* ping, get_config and reload always succeed, open_tunnel may fail, anything not
\* on the whitelist is refused.
CmdTypes == {"simple", "open_tunnel", "upgrade_agent", "unknown"}

ASSUME RunnerConstants ==
    /\ Type \in [Commands -> CmdTypes]
    /\ Versions \subseteq Nat \ {0}
    /\ ReleaseTag \in [Commands -> Versions]
    /\ BadVersions \subseteq Versions
    /\ FirstVersion \in Versions \ BadVersions
    /\ UpgradeEnabled \in BOOLEAN
    /\ MaxRecent \in Nat \ {0}
    /\ RollbackThreshold \in Nat \ {0}
    /\ MaxCrashes \in Nat
    /\ MaxRuns \in Nat \ {0}

NoVersion == 0                 \* no file at this path
NoCmd     == "no command"

VARIABLES
    \* the agent process: where it is, its version, Runner and Executor fields
    pc, version, pendingAcks, consecutiveFailures, recent, order, pendingExit,
    todo,      \* commands of the current answer still to execute
    upgrading, \* the upgrade_agent command whose binary is being swapped in
    \* the disk: executable, its .prev backup, node.json
    exe, prev, node,
    \* the backend: commands queued, results it has recorded, revocation
    queued, acked, revoked,
    \* history: the commands executed in this boot, in this order; versions that
    \* have polled successfully, unplanned deaths, why the process is exiting, and
    \* whether a death or a failed rename interrupted an upgrade
    log, verified, crashes, why, torn

disk    == <<exe, prev, node>>
backend == <<queued, acked, revoked>>
memory  == <<version, pendingAcks, consecutiveFailures, recent, order, pendingExit,
             todo, upgrading, log>>
vars    == <<pc, memory, disk, backend, verified, crashes, why, torn>>

Result  == {"done", "failed"}
Ack     == [id : Commands, result : Result]
PcState == {"down", "poll", "exec", "swap", "exiting", "revoked", "off", "local"}

\* One type invariant: every variable ranges over the values the code gives it.
TypeOK ==
    /\ pc \in PcState
    /\ version \in Versions \cup {NoVersion}
    /\ pendingAcks \subseteq Ack
    /\ consecutiveFailures \in 0 .. RollbackThreshold
    /\ recent \in [Commands -> Result \cup {"none"}]
    /\ order \in Seq(Commands) /\ Len(order) <= MaxRecent
    /\ pendingExit \in BOOLEAN
    /\ todo \subseteq Commands
    /\ upgrading \in Commands \cup {NoCmd}
    /\ exe \in Versions \cup {NoVersion} /\ prev \in Versions \cup {NoVersion}
    /\ node \in BOOLEAN
    /\ queued \subseteq Commands /\ acked \subseteq Commands /\ revoked \in BOOLEAN
    /\ log \in Seq(Commands)
    /\ verified \subseteq Versions
    /\ crashes \in 0 .. MaxCrashes
    /\ why \in {"none", "upgraded", "rollback"}
    /\ torn \in BOOLEAN

\* The memory of a process that has just started (NewExecutor, new Runner).
FreshMemory(v) ==
    /\ version' = v
    /\ pendingAcks' = {} /\ consecutiveFailures' = 0
    /\ recent' = [c \in Commands |-> "none"] /\ order' = << >>
    /\ pendingExit' = FALSE /\ todo' = {} /\ upgrading' = NoCmd
    /\ log' = << >>

\* An enrolled node that has polled before; the backend has queued nothing.
Init ==
    /\ pc = "poll" /\ version = FirstVersion
    /\ pendingAcks = {} /\ consecutiveFailures = 0
    /\ recent = [c \in Commands |-> "none"] /\ order = << >>
    /\ pendingExit = FALSE /\ todo = {} /\ upgrading = NoCmd
    /\ exe = FirstVersion /\ prev = NoVersion /\ node = TRUE
    /\ queued = {} /\ acked = {} /\ revoked = FALSE
    /\ log = << >>
    /\ verified = {FirstVersion} /\ crashes = 0 /\ why = "none" /\ torn = FALSE

Ids(acks) == {a.id : a \in acks}

\* The commands this process has executed, and how often.
Executed == {log[i] : i \in DOMAIN log}

Executions(c) == Cardinality({i \in DOMAIN log : log[i] = c})

-----------------------------------------------------------------------------
(* Runner.Run: one poll.                                                   *)

\* Mutated: every acknowledgement that was sent is dropped, confirmed or not.
dropSent(confirmed) == {}

dropAcked(confirmed) == {a \in pendingAcks : a.id \notin confirmed}

HasPrevVersion == prev # NoVersion

shouldRollback(failures) == failures >= RollbackThreshold /\ HasPrevVersion

\* Mutated: the exit does not wait for the acknowledgements.
mayExitEarly(acks) == pendingExit

\* The upgrade is in place and nothing is left to confirm.
mayExit(acks) == pendingExit /\ acks = {}

\* A successful poll.  The backend confirms the acknowledgements it recorded (a
\* faulty one may skip some) and answers with commands that had no result when it
\* looked, so a command may come again.  The backup is cleared, confirmed
\* acknowledgements are dropped, and the process exits for an upgrade, leaving the
\* commands of this answer for later, or goes on to execute them.
PollOk(confirmed, cmds) ==
    /\ pc = "poll" /\ ~revoked /\ version \notin BadVersions
    /\ confirmed \subseteq Ids(pendingAcks)
    /\ cmds \subseteq {c \in queued \ acked : Executions(c) < MaxRuns}
    /\ acked' = acked \cup confirmed
    /\ consecutiveFailures' = 0
    /\ prev' = NoVersion
    /\ verified' = verified \cup {version}
    /\ pendingAcks' = dropAcked(confirmed)
    /\ IF mayExit(dropAcked(confirmed))
       THEN pc' = "exiting" /\ why' = "upgraded" /\ todo' = {}
       ELSE pc' = (IF cmds = {} THEN "poll" ELSE "exec") /\ todo' = cmds /\ why' = why
    /\ UNCHANGED <<version, recent, order, pendingExit, upgrading, log, exe, node,
                   queued, revoked, crashes, torn>>

\* A failed poll: the request was lost, the answer was lost after the backend
\* recorded the acknowledgements (processed), or the answer was an error that is
\* not terminal.  Rollback's rename may itself fail; the poll is then retried.
PollFail(processed, rollbackOk) ==
    /\ pc = "poll"
    /\ processed => ~revoked /\ version \notin BadVersions
    /\ LET failures == IF consecutiveFailures = RollbackThreshold
                       THEN consecutiveFailures ELSE consecutiveFailures + 1
           rollback == shouldRollback(failures) /\ rollbackOk
       IN  /\ consecutiveFailures' = failures
           /\ exe'  = IF rollback THEN prev ELSE exe
           /\ prev' = IF rollback THEN NoVersion ELSE prev
           /\ pc'   = IF rollback THEN "exiting" ELSE pc
           /\ why'  = IF rollback THEN "rollback" ELSE why
    /\ acked' = IF processed THEN acked \cup Ids(pendingAcks) ELSE acked
    /\ UNCHANGED <<version, pendingAcks, recent, order, pendingExit, todo, upgrading, log,
                   node, queued, revoked, verified, crashes, torn>>

\* Mutated: a terminal answer is treated like any other error.
PollTerminalIgnored ==
    /\ pc = "poll" /\ revoked /\ version \notin BadVersions
    /\ pc' = "poll"
    /\ UNCHANGED <<memory, disk, backend, verified, crashes, why, torn>>

\* node_revoked or node_not_found: Run returns ErrRevoked.
PollTerminal ==
    /\ pc = "poll" /\ revoked /\ version \notin BadVersions
    /\ pc' = "revoked"
    /\ UNCHANGED <<memory, disk, backend, verified, crashes, why, torn>>

-----------------------------------------------------------------------------
(* Executor.Execute: one command of the answer.                            *)

\* Mutated: the cache is trimmed one entry too early.
evictEarly(o) == IF Len(o) >= MaxRecent THEN {Head(o)} ELSE {}

\* What remember evicts once o is longer than the cache.
evict(o) == IF Len(o) > MaxRecent THEN {Head(o)} ELSE {}

\* Mutated: a failure is not acknowledged.
ReplyDoneOnly(c, r) ==
    /\ pendingAcks' = IF r = "done" THEN pendingAcks \cup {[id |-> c, result |-> r]}
                                    ELSE pendingAcks
    /\ todo' = todo \ {c}
    /\ pc' = IF todo = {c} THEN "poll" ELSE "exec"

\* Append the acknowledgement and turn to the next command or the next poll.
Reply(c, r) ==
    /\ pendingAcks' = pendingAcks \cup {[id |-> c, result |-> r]}
    /\ todo' = todo \ {c}
    /\ pc' = IF todo = {c} THEN "poll" ELSE "exec"

\* execute and remember; the cache holds MaxRecent results in arrival order.
Remember(c, r) ==
    LET o   == Append(order, c)
        out == evict(o)
    IN  /\ order' = IF out = {} THEN o ELSE Tail(o)
        /\ recent' = [d \in Commands |-> IF d \in out THEN "none"
                                         ELSE IF d = c THEN r ELSE recent[d]]

\* A repeated command is answered from the cache.
ExecReplay(c) ==
    /\ pc = "exec" /\ c \in todo /\ recent[c] # "none"
    /\ Reply(c, recent[c])
    /\ UNCHANGED <<version, consecutiveFailures, recent, order, pendingExit, upgrading, log,
                   disk, backend, verified, crashes, why, torn>>

\* Mutated: the target is compared with nothing.
anyRelease(c) == TRUE

\* isNewerRelease against the version of the running process.
isNewerRelease(c) == ReleaseTag[c] > version

\* upgradeAgent answers without touching the disk: disabled, already at the
\* target, not newer, or download or checksum failed.
UpgradeAnswers(c) ==
    IF ~UpgradeEnabled THEN {"failed"}
    ELSE IF ReleaseTag[c] = version THEN {"done"}
    ELSE {"failed"}

\* What a command answers when it changes nothing here; any command may have
\* expired (by the server's clock) before it is executed.
Answers(c) ==
    {"failed"} \cup CASE Type[c] = "simple"        -> {"done"}
                      [] Type[c] = "open_tunnel"   -> {"done"}
                      [] Type[c] = "unknown"       -> {}
                      [] Type[c] = "upgrade_agent" -> UpgradeAnswers(c)

Exec(c, r) ==
    /\ pc = "exec" /\ c \in todo /\ recent[c] = "none"
    /\ r \in Answers(c)
    /\ Reply(c, r)
    /\ Remember(c, r)
    /\ log' = Append(log, c)
    /\ UNCHANGED <<version, consecutiveFailures, pendingExit, upgrading, disk, backend,
                   verified, crashes, why, torn>>

\* prepareFrom, first part: the verified download is at exe.new; the old backup
\* is removed and the executable renamed to the backup.
UpgradeBackup(c) ==
    /\ pc = "exec" /\ c \in todo /\ recent[c] = "none"
    /\ Type[c] = "upgrade_agent" /\ UpgradeEnabled
    /\ ReleaseTag[c] # version /\ isNewerRelease(c)
    /\ prev' = exe
    /\ exe' = NoVersion
    /\ upgrading' = c /\ pc' = "swap"
    /\ log' = Append(log, c)
    /\ UNCHANGED <<version, pendingAcks, consecutiveFailures, recent, order, pendingExit, todo,
                   node, backend, verified, crashes, why, torn>>

\* The rename to the backup fails: the old backup is gone, the executable stays.
UpgradeBackupFails(c) ==
    /\ pc = "exec" /\ c \in todo /\ recent[c] = "none"
    /\ Type[c] = "upgrade_agent" /\ UpgradeEnabled
    /\ ReleaseTag[c] # version /\ isNewerRelease(c)
    /\ prev' = NoVersion
    /\ Reply(c, "failed") /\ Remember(c, "failed")
    /\ log' = Append(log, c)
    /\ UNCHANGED <<version, consecutiveFailures, pendingExit, upgrading, exe, node, backend,
                   verified, crashes, why, torn>>

\* prepareFrom, second part: the new binary is renamed into place.
UpgradeSwap ==
    /\ pc = "swap"
    /\ exe' = ReleaseTag[upgrading]
    /\ pendingExit' = TRUE
    /\ Reply(upgrading, "done") /\ Remember(upgrading, "done")
    /\ upgrading' = NoCmd
    /\ UNCHANGED <<version, consecutiveFailures, log, prev, node, backend, verified,
                   crashes, why, torn>>

\* Mutated: a failed second rename does not put the old binary back.
UpgradeSwapFailsNoRestore(restored) ==
    /\ pc = "swap"
    /\ UNCHANGED <<exe, prev, torn>>
    /\ Reply(upgrading, "failed") /\ Remember(upgrading, "failed")
    /\ upgrading' = NoCmd
    /\ UNCHANGED <<version, consecutiveFailures, pendingExit, log, node, backend, verified,
                   crashes, why>>

\* The second rename fails: the old binary is put back, if that rename succeeds.
UpgradeSwapFails(restored) ==
    /\ pc = "swap"
    /\ restored => HasPrevVersion
    /\ exe'  = IF restored THEN prev ELSE exe
    /\ prev' = IF restored THEN NoVersion ELSE prev
    /\ torn' = (torn \/ ~restored)
    /\ Reply(upgrading, "failed") /\ Remember(upgrading, "failed")
    /\ upgrading' = NoCmd
    /\ UNCHANGED <<version, consecutiveFailures, pendingExit, log, node, backend, verified,
                   crashes, why>>

-----------------------------------------------------------------------------
(* The end of the process and its restart.                                 *)

\* ErrUpgraded: exit status 0, systemd starts the agent again.
ExitZero ==
    /\ pc = "exiting"
    /\ pc' = "down" /\ why' = "none"
    /\ UNCHANGED <<memory, disk, backend, verified, crashes, torn>>

\* handleRevoked: Cleanup removes node.json (a failure is only logged), exit
\* status 3, which systemd does not restart.
Cleanup(removed) ==
    /\ pc = "revoked"
    /\ node' = (node /\ ~removed)
    /\ pc' = "off"
    /\ UNCHANGED <<memory, exe, prev, backend, verified, crashes, why, torn>>

\* The process dies at an arbitrary point.
Crash ==
    /\ pc \in {"poll", "exec", "swap", "exiting", "revoked"}
    /\ crashes < MaxCrashes /\ crashes' = crashes + 1
    /\ pc' = "down" /\ why' = "none"
    /\ torn' = (torn \/ pc = "swap")
    /\ UNCHANGED <<memory, disk, backend, verified>>

\* systemd runs the executable.  Without node.json (and token) the new process
\* does not poll.
Boot ==
    /\ pc = "down" /\ exe # NoVersion
    /\ pc' = IF node THEN "poll" ELSE "local"
    /\ FreshMemory(exe)
    /\ UNCHANGED <<disk, backend, verified, crashes, why, torn>>

\* The machine is rebooted after the agent exited with status 3.
Reboot ==
    /\ pc = "off"
    /\ pc' = "down"
    /\ UNCHANGED <<memory, disk, backend, verified, crashes, why, torn>>

\* Backend: a user queues a command, or deletes the node.
Queue(c) ==
    /\ c \notin queued /\ ~revoked
    /\ queued' = queued \cup {c}
    /\ UNCHANGED <<pc, memory, disk, acked, revoked, verified, crashes, why, torn>>

Revoke ==
    /\ ~revoked /\ revoked' = TRUE
    /\ UNCHANGED <<pc, memory, disk, queued, acked, verified, crashes, why, torn>>

Poll ==
    \/ \E confirmed, cmds \in SUBSET Commands : PollOk(confirmed, cmds)
    \/ \E processed, rollbackOk \in BOOLEAN : PollFail(processed, rollbackOk)
    \/ PollTerminal

Execute ==
    \/ \E c \in Commands :
         \/ ExecReplay(c) \/ UpgradeBackup(c) \/ UpgradeBackupFails(c)
         \/ \E r \in Result : Exec(c, r)
    \/ UpgradeSwap
    \/ \E restored \in BOOLEAN : UpgradeSwapFails(restored)

Next ==
    \/ Poll \/ Execute
    \/ ExitZero \/ Crash \/ Boot \/ Reboot
    \/ \E removed \in BOOLEAN : Cleanup(removed)
    \/ \E c \in Commands : Queue(c)
    \/ Revoke

Spec == Init /\ [][Next]_vars

\* A poll that gets through, delivers everything and confirms everything.
PollThrough == PollOk(Ids(pendingAcks), queued \ (acked \cup Ids(pendingAcks)))

\* The agent keeps running what it can run, systemd restarts it, and the network
\* is not down forever: a poll that is possible again and again gets through.
Fairness ==
    /\ WF_vars(Execute) /\ WF_vars(ExitZero) /\ WF_vars(\E removed \in BOOLEAN : Cleanup(removed)) /\ WF_vars(Boot)
    /\ SF_vars(PollThrough) /\ SF_vars(PollTerminal)

FairSpec == Spec /\ Fairness

-----------------------------------------------------------------------------
(* Properties.                                                             *)

\* An upgrade exits only after the backend has recorded the result of every
\* command this process executed, the upgrade included (Runner.Run: otherwise
\* the backend would send upgrade_agent again to the new version).
ExitOnlyWhenAcked ==
    pc = "exiting" /\ why = "upgraded" => Executed \subseteq acked

\* A command that was executed and whose result the backend does not know yet has
\* its acknowledgement in the queue, whatever requests or answers were lost.
NoAckLost ==
    pc \in {"poll", "exec", "exiting"} => Executed \subseteq acked \cup Ids(pendingAcks)

\* However often a command is delivered, it is executed again within one boot
\* only after maxRecent executions of other commands pushed its result out of
\* the replay cache.
ReExecutedOnlyAfterEviction ==
    \A i, j \in DOMAIN log : i < j /\ log[i] = log[j] => j - i > MaxRecent

\* Upgrades only go up: while the node serves, a restart would run its version
\* or a newer one, whatever commands arrived in whatever order.
NoDowngrade == pc \in {"poll", "exec"} /\ exe # NoVersion => exe >= version

\* The executable is missing only between the two renames, or after they were
\* interrupted by a death or by two failing renames.
ExecutableInPlace == exe = NoVersion => pc = "swap" \/ torn

\* Every queued command gets a result, unless the node is revoked, has lost its
\* executable, or was upgraded to a release that cannot reach the backend.
EveryCommandAnswered ==
    \A c \in Commands :
        c \in queued ~> (c \in acked \/ revoked \/ exe = NoVersion \/ exe \in BadVersions)

\* A revoked node stops polling for good.
RevokedStops ==
    revoked ~> (pc \in {"off", "local"} \/ exe = NoVersion \/ exe \in BadVersions)

\* A version that has not reached the backend yet has a backup to fall back to
\* (comment on prevSuffix: without the file there is no way back).
UnverifiedHasFallback ==
    pc = "poll" /\ version \notin verified => HasPrevVersion

=============================================================================
