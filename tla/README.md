# A TLA+ verification of the sing-box node agent

The program is an agent that runs beside sing-box on a VPS. It starts and
supervises the sing-box process, keeps the node's users and generates
sing-box's configuration from them, meters their traffic, and, on enrolled
nodes, polls a backend for commands (open a tunnel, reload, upgrade the agent)
until the node is revoked.

## The parts of the system

| part | state it keeps | operations | hard because |
|---|---|---|---|
| `singbox.Manager` (process.go) | `running`, `generation`, `consecutiveFailures`, `stopped`, `cmd`; residential.json | Start, Stop, Reload, monitor goroutine, settle timer | one monitor and one timer per launch outlive it; three callers; processes die at any time; the agent itself may die and leave sing-box behind |
| `local.Store` (store.go) | user map, local_users.json | CreateUser, UpdateUser, DeleteUser, AddTraffic, Clear | concurrent HTTP handlers; saves that fail or are cut short |
| `regenerateConfig`, `accountLocalTraffic` (main.go), `stats.Meter`, `config.Generator` | `Meter.last`, config.json, sing-box's own counters | account, list, generate, write, reload, reset | two accounting threads share one Meter; changes land between the steps |
| `quota.Monitor` | users with quota and expiry | UpdateUsers, CheckAllUsers | expiry only kicks connections |
| `enroll.Runner` (runner.go) | `pendingAcks`, `consecutiveFailures`, node.json | Prepare/register, Run (long poll) | lost requests and answers, redelivery, revocation |
| `enroll.Executor` (executor.go) | replay cache, `pendingExit` | Execute | duplicates, eviction |
| self-upgrade (upgrade.go) | executable, `.prev` backup | PrepareUpgrade, Rollback, ClearPrevVersion | deaths between renames, releases that do not work |
| `tunnel.Manager` (client.go) | session table, connections | Open, serve, CloseAll | the dial happens outside the lock; peers vanish silently |
| SSH server (sshserver.go) | a pty and a process per session | shell, exec, window-change | five goroutines around one file |
| device keys (authkeys.go, oboxkey.go) | authorized_keys.json | Add, Remove, Reset | every command is a process; the mutex protects nothing between them |
| node life cycle (install.sh, main.go, nodefile.go, runner.go) | systemd unit with the one-time token, node.json | install, register, handleRevoked | installer and agent race; deaths between steps; a token can be used once |
| remote/hybrid mode (sync.go, cache.go, reporter.go, main.go) | synced version, caches | syncAndApply, heartbeat, report | lost answers, version recorded before it is applied |
| local HTTP API, health, share links, keys, certificates, IP detection | none, or write-once files | formatting, I/O | – |

They interact by calls (the Runner's goroutine calls the Executor, which calls
Reload or the tunnel manager), by callbacks run in new goroutines (`go onChange()`
after every change of a user), by timers (main loop every 10 s, settle timers,
restart back-off) and through files.

What makes each part correct: the Manager keeps at most one, tracked sing-box and
neither loses a crash nor undoes a Stop; the Store's acknowledged changes survive
and reach sing-box; users are charged for what they used and are cut off when they
may not be served; a command is answered exactly as far as a lossy network allows;
an upgrade never leaves the node without an executable or a way back; a machine is
never left without both token and credentials; a deleted node stops, and serves nobody
after the next boot; the list of devices never locks everybody out.

## Modules

- `Supervisor` – the abstract supervisor: what somebody who calls Start, Stop and
  Reload may rely on, without generations, monitors or timers.
- `SingboxManager` – process.go. A section of code that holds `Manager.mu` is one
  step. `mon[p]` and `settle[p]` are the goroutines of launch `p` and `gen[p]` the
  generation they carry; `ps[p]` is the operating system's process. `RefinesSupervisor`
  maps it to `Supervisor`.
- `SingboxManagerProofs` – theorems about `SingboxManager`.
- `EnrollRunner` – runner.go, executor.go, upgrade.go and the exits in main.go. A
  poll and its outcome are one step (`PollOk`, `PollFail`, `PollTerminal`), each
  command another, an upgrade two (`UpgradeBackup`, `UpgradeSwap`): the agent can
  die between any of them, and `Boot` runs whatever executable is on the disk.
  The history `log` lists the commands executed since the last boot.
- `EnrollRunnerProofs` – theorems about `EnrollRunner`.
- `LocalUsers` – store.go, meter.go, and `regenerateConfig` and
  `accountLocalTraffic` of main.go. Each step of `regenerateConfig` is an action
  (`RegenLock` … `RegenReset`); the main loop's accounting is `TickCollect` …
  `TickEnd`. sing-box is reduced to the states its Manager can put it in.
- `LocalUsersProofs` – theorems about `LocalUsers`.
- `RemoteAgent` – remote and hybrid mode of main.go, sync.go, cache.go and
  monitor.go. The main loop's synchronisation is `SyncBegin` … `SyncStart`, start-up
  without the server `applyFromCache` and `BootRegen`, the regenerations beside it
  `RegenLock` … `RegenStart`. `overlap` records that two writes of config.json were
  under way at once, which may leave a file that is no JSON.
- `RemoteAgentProofs` – theorems about `RemoteAgent`.
- `StatsReporter` – reporter.go and `collectAndReport`: one report in hand, the files
  of the cache directory (`stash`, `torn`), and the flush that sends the files it has listed
  (`files`) oldest first.
- `StatsReporterProofs` – theorems about `StatsReporter`.
- `SSHSession` – one session channel of sshserver.go: the request loop (`loop`),
  pipe, the waiter and the two copiers, around the pty master (`fd`), the shared
  variable `ptyFile` and the channel.
- `SSHSessionProofs` – theorems about `SSHSession`.
- `Tunnel` – client.go. `Open` is three actions (`OpenBegin`, then `OpenFails` or
  `OpenOk`) because it dials without the lock; `ServeEnds` and `ServeDeletes` are the
  two halves of serve's deferred function; `WatcherCloses` is the goroutine that waits
  for the context. `silent` are the sessions whose far end is gone.
- `NodeLifecycle` – extends `Tunnel` with install.sh, Run, startEnrollment, register,
  node.json and handleRevoked: the life of a machine from its installation to the
  deletion of its node and the next installation. `main` and `run` are the positions
  of the main goroutine and of the Runner's; `mine` is the token the script was given,
  `unit` the one in the systemd unit,
  `node` the secret in node.json, `tok`, `backend` and `gen` the backend's side.
  systemd is `Boot`, `Crash` and `Reboot`; it ends sing-box together with the agent,
  since the unit has the default KillMode.
- `NodeLifecycleProofs` – theorems about `NodeLifecycle` and `Tunnel`.
- `DeviceKeys` – authkeys.go and oboxkey.go. Names and inodes of the list and of its
  temporary file are separate (`file`, `tmp`, `data`), so that a command can go on
  writing a file another one has renamed. `promised` is what the last command that ran
  alone said about each key.
- `DeviceKeysProofs` – theorems about `DeviceKeys`.
- `MC*` – model-checking instances; `StatsReporter`, `SSHSession` and `NodeLifecycle`
  need no module of their own.

## Runs

| run | what it shows |
|---|---|
| `manager` | Two callers, three launches, failures of exec, deaths of the agent. At most the current process is alive (`OnlyCurrentAlive`); a healthy process is never taken for crashed (`HealthyIsTracked`); a monitor never undoes Stop (`StopIsFinal`); a wanted process is running, being restarted or given up (`SupervisedUnlessRestartFailed`); failures are forgiven only by a settled current launch (`ForgivenOnlyWhenSettled`); every crash is handled (`CrashIsHandled`); the Manager implements `Supervisor`. |
| `enroll` | Two upgrade commands, a broken release, lost requests and answers, partial confirmation, one death, failing renames, eviction, revocation. `ExitOnlyWhenAcked`, `NoAckLost`, `ReExecutedOnlyAfterEviction`, `NoDowngrade`, `ExecutableInPlace`, and that every command is answered and a revoked node stops. |
| `enroll_fallback` (violation) | the new version starts without the backup it may need (runner.go:269 against upgrade.go:22). |
| `users` | Changes, quota crossings and both accounting threads against one fault of any kind. `ServesTheStore`: when all regenerations are through and none failed, sing-box serves exactly the users it should; `AckedIsDurable`; `BarredIsCutOff`. |
| `users_overcharge` (violation) | readings applied out of order are charged twice (main.go:586 against meter.go:10). |
| `users_expiry` (violation) | an expired user stays in the running configuration (main.go:535 against generator.go:81). |
| `remote` | Remote and hybrid mode with two faults of any kind, crashes and restarts. `ServesWhatIsWritten`: although synchronisation and regeneration share no lock, neither leaves the other's write of config.json unapplied; `RecordedIsServed`: a version is never skipped as unchanged without having been applied; `OfflineServesCache`: a restart without the server serves the last list fetched; `ServedIsWatched`: whoever is served is watched for expiry. |
| `reporter` | Lost requests and answers, saves, reads and removals that fail, deaths while a file is written. `ReportNotLost`, and `StashIsDelivered`: no file, not even a broken one, blocks the others for ever. Delivery is at least once: a lost answer makes the server see a report twice. |
| `ssh` | One session with up to four requests. `SharedPtyIsOpen`, `StatusBeforeClose`, `EndsForCause`, `NoProcessLeft`; `ExitEndsSession`: the exit of the shell ends the session although a child holds the terminal; `WindowFollows`: the last window size reaches the pty. |
| `ssh_hangup` (violation) | a client that vanishes while its shell is silent leaves shell, pty and goroutines behind (sshserver.go:603 against :606). |
| `node` | Two runs of install.sh on one machine, each with a new token or with one that was issued before, fresh, expired or used, with one fault anywhere and any number of reboots. `NeverStranded`: the installer reports success, and takes the token out of the unit, only for credentials its own run has obtained; `RefusedOnlyIfSpent`: an agent whose token has bought a secret since the installation began gives up over a used token only if that secret was lost before or after it was saved; `DeletedNodeServesNobody`: once the credentials of a deleted node are gone, so are its users, through every later boot; `AtMostMaxOpen`; `RevocationReachesEveryTunnel`: CloseAll misses no connection; `RegistrationSettles`; `DeadPeerFreesSlot`: three dead peers do not lock the owner out. |
| `keys` | Two overlapping obox-key processes, five commands, two kills or failed writes. `NeverEmptied`; `UndisturbedCommandsHold`: what a command that ran alone promised is kept until a command about the same key begins, whatever overlaps later. |

### Bounds, and why they are enough

- `manager`: a stale monitor or timer needs a launch, its replacement and one more
  to be confused with, hence three launches; two generations let Stop happen twice.
  The thresholds keep their order (2 for the residential file, 3 instead of 10 to
  give up).
- `enroll`: two upgrades, one broken (2) and one good (3), because the interesting
  cases need an upgrade after an upgrade; a replay cache of one entry, so that the
  second command evicts the first; two executions per command and boot; threshold 2
  instead of 3 for the rollback; one unplanned death. `ct`, a command other than an
  upgrade, takes part in `enroll_fallback`.
- `users`: one user (users share only the generated file, which is written whole),
  two changes, a limit of one unit and unlimited, a clock of two instants, one fault.
  The overcharge needs two units of traffic; its run allows them.

- `remote`: two users and two versions of the list that differ in both; two faults,
  because a failed write matters most when a crash follows; one local change, whose
  regeneration meets a synchronisation.
- `reporter`: three reports, so that a file can be older and another younger than a
  broken one; three faults, so that a file can be cut short, then fail to be removed, with
  a death between.
- `node`: two tokens and two runs of the installer (`MaxInstalls`), because the second
  installation meets what the first has left, with a token of its own or with the first;
  one session more than `MaxOpen` = 1 allows; one user (the Store is cleared as a
  whole); one fault, and reboots of a stopped agent that do not count as one.
- `keys`: three keys, so that a command can concern a key, another one its overlap and
  a third one nobody; two processes; four inodes are all that can be referred to at
  once; five commands, two faults. The proofs lift all of these.
- `ssh`: four requests are a pty, a size, the shell and another size; two sizes.

### Fairness

Goroutines that can run do (weak fairness on monitors, regenerations, the main
loop's timer and the Executor), and systemd restarts a process that exited with
anything but 3. For the poll loop the network is assumed not to be down forever: a
poll that is possible again and again eventually gets through (strong fairness); the
same holds for the reporter's server and its timer. (A server that refused one report
for ever, with a 400 say, would block all later ones: FlushCache stops at the first
file that fails, and `StashIsDelivered` assumes that away.) In an SSH session timers fire, a
killed process exits, and a client answers the server's close with its own; a process
need not exit, write or obey SIGHUP. For registration
the backend is assumed to answer sooner or later (the code's own argument that the loop
is bounded needs an answer, too), and the goroutines of a tunnel to run. No fairness is
assumed of crashes, users, clients, obox-key commands, the installer or the backend's
queue. Deadlock is
not checked where the system may really stop: a revoked or broken node, or a node
whose bounded inputs are used up.

## Proofs

`SingboxManagerProofs` proves for every number of callers, launches and
generations, every threshold and every set of faults: type correctness,
`OnlyCurrentAlive`, `HealthyIsTracked`, `SupervisedUnlessRestartFailed`, the action
properties `StopIsFinal` and `ForgivenOnlyWhenSettled`, and that the Manager
implements `Supervisor`. The only assumptions are those of `ManagerConstants`.

The argument is one inductive invariant, `Inv`. That at most the current process is
alive is not inductive: a restart by a monitor must find no other process, which
holds because a monitor that waits out its back-off watches a dead process
(`BackoffIsIdle`), because only one goroutine can pass the generation test
(`GenerationsDistinct`, `GenerationsPast`: every older launch carries a smaller
generation), and because the monitor of the process in `m.cmd` is still there to
see it exit (`CurrentIsWatched`, `WaiterIsCurrent`). The action properties and the
refinement follow from `Inv` step by step.

`SSHSessionProofs` proves for any number of requests and sizes type correctness,
`SharedPtyIsOpen`, `StatusBeforeClose`, `EndsForCause` and `NoProcessLeft`. Its
inductive invariant ties the positions of the goroutines together: ptyFile is set
exactly while pipe has not passed closePTY (`Shared`), the pty is open exactly until
pipe closes it (`PtyPosition`), the request loop gets past a process only behind pipe
or because the client is gone (`LoopPosition`), whoever called stop had a cause
(`StopHasCause`), and pipe reports a status only of an exited or killed process
(`KilledBeforeStatus`). `StatusBeforeClose` needs `LoopPosition` because three places
close the channel.

`DeviceKeysProofs` proves for any set of keys and any number of processes, commands
and faults `NeverEmptied` and `UndisturbedCommandsHold`. For the first, no *file* may
hold the empty list (`NoEmptyFile`: also not a file that has lost its name) and no
command may be about to write it (`NoEmptyWrite`). For the second, everything that may
still become the list has to keep the promises: lists about to be written, files
open for writing, and the temporary file once a command that will rename it has
opened it (`PendingHonours`); before that it may hold the remains of a killed command.
`NotPromised` says that a promise is made and kept only while no command about the
key is at work, `AloneOwns` that a command nobody overlapped renames its own list.

`NodeLifecycleProofs` proves for any sessions, users and limit and any number of
tokens, installations and faults, from `NodeConstants` and `TunnelConstants`, the five
invariants of the run `node`. Four inductive invariants build on each other.

- `TInv`, for `AtMostMaxOpen` and `RevocationReachesEveryTunnel`: serve closes a
  connection before it deletes the entry, so that what is open is in the map
  (`OpenIsActive`); the room Open has found is still there after the dial, since only
  the Runner's goroutine adds sessions (`RoomIsKept`); and that goroutine is not inside
  Open once it handles the revocation (`DialsWhilePolling`).
- `BInv`, about the tokens: the unit and the process hold the token the script was given
  or none (`TokenTypes`), a token is issued once, and there are no more secrets than
  tokens that were used (`SecretsCost`, a count: a secret costs a token that was fresh).
- `CInv`, for `NeverStranded` and `RefusedOnlyIfSpent`. The token says little, since it may
  have been used before the script was run; what counts is whether the backend has issued
  a secret since then (`Bought`). If it has, or if the token was refused as used, the token
  buys no more; and node.json is there, or a Runner polls, only if it has
  (`TokensBuySecrets`). Credentials are read before a registration begins and
  cannot be read only if damaged (`CredentialsCurrent`); a secret that was bought and
  cannot be read has an explanation (`WayBack`); and a node that was cleaned up
  neither polls nor registers before the next installation (`CleanedIsFinal`).
- `UInv`, which needs `CInv`, for `DeletedNodeServesNobody`: the Store is empty of the
  users of the deleted node, in memory and on disk, before the credentials go
  (`ClearedStore`), and an agent that starts afterwards has nowhere to take them from,
  config.json included, because it regenerates that first (`CleanStart`).

`EnrollRunnerProofs` proves for any commands, versions, size of the replay cache and
number of faults, from `RunnerConstants`, the five invariants of the run `enroll`.

- `AInv`, for `NoAckLost` and `ExitOnlyWhenAcked`: a command executed in this boot is
  recorded by the backend or its result is in `pendingAcks` (`Answered`), and the Runner
  exits for an upgrade only with an empty queue (`NothingLeft`).
- `VInv`, for `NoDowngrade` and `ExecutableInPlace`: between the two renames the
  backup and the release that replaces it are no older than the running version, and
  while commands are executed neither is the executable.
- `CInv`, for `ReExecutedOnlyAfterEviction`. The property compares positions of `log`, so
  the invariant has to say where the cache stands in it: `order` is the last
  `Len(order)` entries of `log` (`OrderIsSuffix`), the cache holds exactly the commands of
  `order` (`RecentIsOrder`), and an upgrade in progress is its last entry (`SwapIsLast`).
  A command is executed only if it is not in the cache, hence not among these entries.
  The history is a sequence rather than a count per command because what a count says
  about the cache can be shown only by induction over the sequence.

`LocalUsersProofs` proves for any users, limits, expiry times and number of changes,
units of traffic and faults, from `UsersConstants`, `AckedIsDurable` and
`ServesTheStore`. The types of the variables come first (`Types`, with `User` and
`delta`), then two invariants.

- `Durable`, for the first: as long as no save failed, local_users.json is what is in
  memory and keeps the promises by itself, since memory is lost in a crash. It needs that
  nobody holds regenMu in a dead agent (`HolderAlive`): regenerateConfig saves, too.
- `LInv`, for the second. `ServesTheStore` speaks of quiet states only; what holds all
  the time is that either a regeneration that has yet to list the users is `Pending`, or
  the latest list is good (`LatestIsGood`): the one in hand while it is written, the one in
  config.json otherwise. A change of a user makes one pending, a crossing of a limit is
  remembered by the main loop until it asks for one (`CrossedInAdd`), and traffic without
  a crossing leaves a good list good (lemma `GoodAdd`). Time only takes users off the list
  (`LInvClock`). `ServesTheFile` connects the file with the process.

The code violates `NeverOvercharged`: the run `users_overcharge` shows a user charged twice
for the same traffic. `OverchargeNeedsOverlap` proves that what this run meets is the
only way to it: `Spec /\ []Separate => []NeverOvercharged`, where `Separate` says that the
main loop never holds a reading of sing-box while a regeneration holds one of its own or
stands between its restart of sing-box and `Meter.Reset`; locking the two against each
other would give it. All other interleavings, crashes, failed saves and restarts of
sing-box remain and charge nobody twice. The invariant `Honest`
is an account of every unit: what a user was charged, what threads have in hand to
charge (`Charged`) and what the next reading will charge (`Owed`) are together at most
what has flowed, and local_users.json says no more either. Only a thread between Collect
and Deltas holds a reading (`HeldWhere`), so that under `Separate` there is one reading at
most to apply, and `Meter.Reset` finds a process that nobody has read.
`DeadIsBare` carries the account over a death of the agent.

`RemoteAgentProofs` proves for any users, versions and number of faults, from
`RemoteConstants`, the four invariants of the run `remote`. `ServesWhatIsWritten` is
inductive with the positions of the two goroutines (`Positions`): whoever wrote
config.json is still to restart sing-box. The other three share `RInv`: what a
synchronisation has in hand is a version of the list with the users of it that are to be
served (`InHand`), a recorded version is served or about to be (`Recorded`), users.json is
never behind what is served (`CacheLeads`), and the quota monitor's users include the
ones served (`Watched`).

`StatsReporterProofs` proves `ReportNotLost` for any number of reports and faults. Every
report is somewhere (`Accounted`); that removing a file loses none needs that the server
received what it holds (`RemovedIsReceived`), and that saving one does not end in a file
that was cut short needs that such a file belongs to an earlier report (`TornIsPast`).

Type correctness (`TypeCorrect`, the invariant `TypeOK` with its bounds) is a theorem for
all eight proved modules. It is not a matter of form everywhere: in `NodeLifecycle` the
number of secrets needs the count of used tokens and the content of node.json all of
`CInv`; in
`RemoteAgent` a monitor restarts sing-box only after a config.json existed; in
`StatsReporter` the oldest cached file that FlushCache takes exists because a set of
naturals has a least element; in `LocalUsers` (`Metered`) a process counts no more than
has flowed.

With these every safety property and every action property of the runs that pass is
proved. Only model-checked: liveness (`CrashIsHandled`, `EveryCommandAnswered`,
`RevokedStops`, `BarredIsCutOff`, `StashIsDelivered`, `ExitEndsSession`,
`WindowFollows`, `RegistrationSettles`, `DeadPeerFreesSlot`), which is beyond the
prover, and the four properties the code violates.

## Seen while modelling

Behaviour a maintainer should know of that no run singles out:

- A restart by the Manager's monitor that fails to start sing-box ends supervision; it
  is logged, and neither retried nor reported by `GaveUp` (process.go:329, against
  "进程守护（崩溃自动重启）" in the README). `SupervisedUnlessRestartFailed` states the
  exception.
- In hybrid mode a change of a local user regenerates config.json from the local users
  alone and cuts off the remote ones until the next synchronisation (main.go:608,
  against "混合模式：本地 + 远程用户合并", types.go:14). The other way round,
  syncAndApplyHybrid does not take regenMu: when a local user is disabled after it has
  listed the users and the regeneration finishes before it writes, sing-box goes on
  serving that user until the next synchronisation.
- install.sh invites to run it again (install.sh:193, 455), but after a registration the
  token of the same command is used: the second run removes good credentials
  (install.sh:144), the agent is refused as token_used, and the script lists that among
  the common causes (install.sh:400). A machine whose health gate fails after it was
  enrolled needs a new token to be installed again.
- If the answer to Register is lost, the retry is refused as token_used and the agent
  stops for good; only a new token helps. If SaveNodeFile fails the agent stays alive as
  a plain local node although its token is spent, which the comment at main.go:1079
  wants to rule out for refused registrations.
- A damaged node.json is meant to lead to a new registration (nodefile.go:49), but the
  installer has removed the token by then; the agent goes on as a local node.
- A registration that completes between the installer's last look at node.json and its
  final test leaves the token, spent by then, in the unit (install.sh:387).
- Overlapping obox-key commands can undo each other or leave a list nobody can read: the
  mutex behind "并发安全" (authkeys.go:51) orders the goroutines of one process, and each
  command is a process. Sessions that are open when their key is removed go on.
- authorized_keys.json is renamed without a sync (authkeys.go:222), node.json is synced.
- Every tunnel that ends by itself leaves the goroutine that watches its context behind;
  CloseAll does not reach it any more (client.go:142).
- The reload command is answered with done whatever regenerateConfig did (main.go:1153).
- The poll reports sing-box's own counters under the agent's boot_id, although every
  regeneration restarts sing-box and zeroes them (runner.go:397).
- The last output of a process may be lost when its exit closes the pty (sshserver.go:588).

## Not modelled

Formatting and encoding (share links, the JSON of the inbounds, gRPC frames),
cryptographic material, IP and system probes, logging. `Store.UpsertUser` and
`Store.ResetTraffic` have no caller in the program. `Monitor.CheckUser` and the
session traffic of the quota monitor have no effective caller. Back-off delays are
reduced to the orders they allow. reapStrays finds and kills every stray: on a machine
without pgrep or pkill it returns as if there were none, and a sing-box that survived the
agent would keep its ports. In an SSH session the bytes copied, the handshake and
direct-tcpip forwarding are left out. In `NodeLifecycle` API-key installations, a
machine without sing-box, and a failing set-up of the SSH server are left out, and a
local_users.json cut short is an empty one, as load and the next save treat it. The Manager's failure count does not tell
launches with residential.json from launches without it, so the file may be set aside
at its first failure although the comment at process.go:42 counts only launches with
it; the next launch then runs without the file, and no property is affected. A `boot_id_conflict` answer changes no state.

## Plan

All parts that keep state are modelled; all safety and action properties of the passing
runs and all type invariants are proved. Of the properties that the code violates, only
`NeverOvercharged` has a condition worth a theorem: two of the others are temporal, and a
planned upgrade always exits through a successful poll, which removes the backup that
`UnverifiedHasFallback` asks for. What is left: action properties that say what a step may
never do (an acknowledgement is dropped only when confirmed, a cached report is removed
only when received, the Store loses a user only by a request), proved from the invariants
above.
