------------------------- MODULE EnrollRunnerProofs -------------------------
(***************************************************************************)
(* Proofs about EnrollRunner, for any commands and releases, any size of   *)
(* the replay cache, any rollback threshold and any number of deaths.      *)
(***************************************************************************)
EXTENDS EnrollRunner, SequenceTheorems, TLAPS

-----------------------------------------------------------------------------
(* Acknowledgements.                                                       *)

\* The command of an upgrade under way is executed but not yet answered.
Unanswered == IF pc = "swap" THEN {upgrading} ELSE {}

AckTypes ==
    /\ log \in Seq(Commands) /\ todo \subseteq Commands
    /\ pc = "swap" => upgrading \in Commands

Answered ==
    pc \in {"poll", "exec", "swap", "exiting"} =>
        Executed \subseteq acked \cup Ids(pendingAcks) \cup Unanswered

\* The exit of an upgrade finds the queue empty, and nothing is added to it.
NothingLeft == pc = "exiting" /\ why = "upgraded" => pendingAcks = {}

AInv == AckTypes /\ Answered /\ NothingLeft

\* What is executed is one command more.
LEMMA ExecutedGrows ==
    ASSUME log \in Seq(Commands), NEW c \in Commands, log' = Append(log, c)
    PROVE  Executed' = Executed \cup {c} /\ log' \in Seq(Commands)
<1>1. log' \in Seq(Commands)
  BY AppendProperties
<1>2. DOMAIN log' = 1 .. Len(log) + 1 /\ DOMAIN log = 1 .. Len(log) /\ Len(log) \in Nat
  BY AppendProperties, LenProperties
<1>3. \A i \in 1 .. Len(log) : log'[i] = log[i]
  BY AppendProperties
<1>4. log'[Len(log) + 1] = c
  BY AppendProperties
<1> QED
  BY <1>1, <1>2, <1>3, <1>4 DEF Executed

\* A successful poll drops exactly what was confirmed.
LEMMA DropKeeps ==
    ASSUME NEW confirmed
    PROVE  Ids(pendingAcks) \subseteq Ids(dropAcked(confirmed)) \cup confirmed
BY DEF Ids, dropAcked

\* A poll, whatever the backend records, confirms or loses.
LEMMA PollKeepsA ==
    ASSUME AInv, Poll
    PROVE  AInv'
<1>1. ASSUME NEW confirmed, NEW cmds \in SUBSET Commands, PollOk(confirmed, cmds)
      PROVE  AInv'
  <2>1. UNCHANGED <<log, upgrading>> /\ Executed' = Executed
    BY <1>1 DEF PollOk, Executed
  <2>2. AckTypes'
    BY <1>1, <2>1 DEF AInv, AckTypes, PollOk
  <2>3. Executed \subseteq acked \cup Ids(pendingAcks)
    BY <1>1 DEF PollOk, AInv, Answered, Unanswered
  <2>4. acked' = acked \cup confirmed /\ pendingAcks' = dropAcked(confirmed)
    BY <1>1 DEF PollOk
  <2>5. Ids(pendingAcks)' = Ids(dropAcked(confirmed))
    BY <2>4 DEF Ids
  <2>6. Answered'
    BY <2>1, <2>3, <2>4, <2>5, DropKeeps DEF Answered
  <2>7. NothingLeft'
    BY <1>1, <2>4 DEF PollOk, NothingLeft, mayExit
  <2> QED
    BY <2>2, <2>6, <2>7 DEF AInv
<1>2. ASSUME NEW processed \in BOOLEAN, NEW rollbackOk \in BOOLEAN, PollFail(processed, rollbackOk)
      PROVE  AInv'
  <2>1. UNCHANGED <<log, upgrading, todo, pendingAcks>> /\ pc = "poll"
        /\ acked \subseteq acked' /\ (pc' = "poll" \/ (pc' = "exiting" /\ why' = "rollback"))
    BY <1>2 DEF PollFail
  <2> QED
    BY <2>1 DEF AInv, AckTypes, Answered, NothingLeft, Unanswered, Executed, Ids
<1>3. CASE PollTerminal
  BY <1>3 DEF PollTerminal, AInv, AckTypes, Answered, NothingLeft, memory
<1> QED
  BY <1>1, <1>2, <1>3 DEF Poll

\* A command is answered: what was unanswered is in the queue now.
LEMMA ReplyAnswers ==
    ASSUME NEW c \in Commands, NEW r, Reply(c, r)
    PROVE  Ids(pendingAcks)' = Ids(pendingAcks) \cup {c} /\ pc' \in {"poll", "exec"}
           /\ todo' \subseteq todo
<1>1. Ids(pendingAcks') = Ids(pendingAcks \cup {[id |-> c, result |-> r]})
  BY DEF Reply
<1>2. Ids(pendingAcks \cup {[id |-> c, result |-> r]}) = Ids(pendingAcks) \cup {c}
  <2> DEFINE a == [id |-> c, result |-> r]
  <2>1. a.id = c
    OBVIOUS
  <2> HIDE DEF a
  <2>2. Ids(pendingAcks \cup {a}) = Ids(pendingAcks) \cup {c}
    BY <2>1 DEF Ids
  <2> QED
    BY <2>2 DEF a
<1> QED
  BY <1>1, <1>2 DEF Reply, Ids

\* The commands of an answer: each execution is followed by its answer.
LEMMA ExecuteKeepsA ==
    ASSUME AInv, Execute
    PROVE  AInv'
<1> USE DEF AInv, AckTypes, Answered, NothingLeft, Unanswered
<1>1. ASSUME NEW c \in Commands, ExecReplay(c)
      PROVE  AInv'
  BY <1>1, ReplyAnswers DEF ExecReplay, backend, Executed
<1>2. ASSUME NEW c \in Commands, UpgradeBackup(c)
      PROVE  AInv'
  BY <1>2, ExecutedGrows DEF UpgradeBackup, backend, Ids
<1>3. ASSUME NEW c \in Commands, UpgradeBackupFails(c)
      PROVE  AInv'
  BY <1>3, ExecutedGrows, ReplyAnswers DEF UpgradeBackupFails, backend
<1>4. ASSUME NEW c \in Commands, NEW r \in Result, Exec(c, r)
      PROVE  AInv'
  BY <1>4, ExecutedGrows, ReplyAnswers DEF Exec, backend
<1>5. CASE UpgradeSwap
  BY <1>5, ReplyAnswers DEF UpgradeSwap, backend, Executed
<1>6. ASSUME NEW restored \in BOOLEAN, UpgradeSwapFails(restored)
      PROVE  AInv'
  BY <1>6, ReplyAnswers DEF UpgradeSwapFails, backend, Executed
<1> QED
  BY <1>1, <1>2, <1>3, <1>4, <1>5, <1>6 DEF Execute

\* The end of the process, its restart, and the backend.
LEMMA OthersKeepA ==
    ASSUME AInv,
           \/ ExitZero \/ Crash \/ Boot \/ Reboot \/ (\E removed \in BOOLEAN : Cleanup(removed))
           \/ (\E c \in Commands : Queue(c)) \/ Revoke \/ UNCHANGED vars
    PROVE  AInv'
<1> USE DEF AInv, AckTypes, Answered, NothingLeft, Unanswered
<1>1. CASE ExitZero \/ Crash \/ Reboot \/ (\E removed \in BOOLEAN : Cleanup(removed))
  BY <1>1 DEF ExitZero, Crash, Reboot, Cleanup, memory
<1>2. CASE Boot
  BY <1>2, EmptySeq DEF Boot, FreshMemory, Executed
<1>3. CASE (\E c \in Commands : Queue(c)) \/ Revoke \/ UNCHANGED vars
  BY <1>3 DEF Queue, Revoke, vars, memory, backend, Executed, Ids
<1> QED
  BY <1>1, <1>2, <1>3

\* A node that has just polled has executed nothing.
LEMMA AcksBegin == Init => AInv
BY EmptySeq DEF Init, AInv, AckTypes, Answered, NothingLeft, Unanswered, Executed, Ids

\* One step.
LEMMA AcksKept == AInv /\ [Next]_vars => AInv'
BY PollKeepsA, ExecuteKeepsA, OthersKeepA DEF Next

\* No result is lost, for any pattern of lost requests and answers, repeated
\* deliveries and partial confirmations.
THEOREM EveryResultKept == Spec => []NoAckLost
<1>1. AInv => NoAckLost
  BY DEF AInv, Answered, Unanswered, NoAckLost
<1> QED
  BY <1>1, AcksBegin, AcksKept, PTL DEF Spec

\* An upgrade exits only when the backend knows every result.
THEOREM UpgradeWaitsForAcks == Spec => []ExitOnlyWhenAcked
<1>1. AInv => ExitOnlyWhenAcked
  BY DEF AInv, Answered, NothingLeft, Unanswered, ExitOnlyWhenAcked, Ids
<1> QED
  BY <1>1, AcksBegin, AcksKept, PTL DEF Spec

-----------------------------------------------------------------------------
(* The executable.                                                         *)

Files == Versions \cup {NoVersion}

\* While commands are executed the executable is the version that runs, or a newer
\* one an upgrade has put in place; between the renames this holds of the backup and
\* of the release that is about to replace it.
VInv ==
    /\ version \in Files /\ exe \in Files /\ prev \in Files
    /\ todo \subseteq Commands
    /\ pc \in {"poll", "exec"} /\ exe # NoVersion => exe >= version
    /\ pc = "swap" => /\ upgrading \in Commands /\ ReleaseTag[upgrading] > version
                      /\ exe = NoVersion
                      /\ prev # NoVersion => prev >= version
    /\ ExecutableInPlace

\* Poll and rollback.
LEMMA PollKeepsV ==
    ASSUME VInv, Poll
    PROVE  VInv'
<1> USE RunnerConstants DEF VInv, Files, NoVersion, ExecutableInPlace, HasPrevVersion
<1>1. ASSUME NEW confirmed, NEW cmds \in SUBSET Commands, PollOk(confirmed, cmds)
      PROVE  VInv'
  BY <1>1 DEF PollOk
<1>2. ASSUME NEW processed \in BOOLEAN, NEW rollbackOk \in BOOLEAN, PollFail(processed, rollbackOk)
      PROVE  VInv'
  BY <1>2 DEF PollFail, shouldRollback
<1>3. CASE PollTerminal
  BY <1>3 DEF PollTerminal, memory, disk
<1> QED
  BY <1>1, <1>2, <1>3 DEF Poll

\* The renames of an upgrade.
LEMMA ExecuteKeepsV ==
    ASSUME VInv, Execute
    PROVE  VInv'
<1> USE RunnerConstants DEF VInv, Files, NoVersion, ExecutableInPlace, HasPrevVersion
<1>1. ASSUME NEW c \in Commands, ExecReplay(c)
      PROVE  VInv'
  BY <1>1 DEF ExecReplay, Reply, disk
<1>2. ASSUME NEW c \in Commands, UpgradeBackup(c)
      PROVE  VInv'
  BY <1>2 DEF UpgradeBackup, isNewerRelease
<1>3. ASSUME NEW c \in Commands, UpgradeBackupFails(c)
      PROVE  VInv'
  BY <1>3 DEF UpgradeBackupFails, Reply
<1>4. ASSUME NEW c \in Commands, NEW r \in Result, Exec(c, r)
      PROVE  VInv'
  BY <1>4 DEF Exec, Reply, disk
<1>5. CASE UpgradeSwap
  BY <1>5 DEF UpgradeSwap, Reply
<1>6. ASSUME NEW restored \in BOOLEAN, UpgradeSwapFails(restored)
      PROVE  VInv'
  BY <1>6 DEF UpgradeSwapFails, Reply
<1> QED
  BY <1>1, <1>2, <1>3, <1>4, <1>5, <1>6 DEF Execute

\* Deaths and restarts.
LEMMA OthersKeepV ==
    ASSUME VInv,
           \/ ExitZero \/ Crash \/ Boot \/ Reboot \/ (\E removed \in BOOLEAN : Cleanup(removed))
           \/ (\E c \in Commands : Queue(c)) \/ Revoke \/ UNCHANGED vars
    PROVE  VInv'
<1> USE RunnerConstants DEF VInv, Files, NoVersion, ExecutableInPlace
<1>1. CASE ExitZero \/ Crash \/ Reboot \/ (\E removed \in BOOLEAN : Cleanup(removed))
  BY <1>1 DEF ExitZero, Crash, Reboot, Cleanup, memory, disk
<1>2. CASE Boot
  BY <1>2 DEF Boot, FreshMemory, disk
<1>3. CASE (\E c \in Commands : Queue(c)) \/ Revoke \/ UNCHANGED vars
  BY <1>3 DEF Queue, Revoke, vars, memory, disk
<1> QED
  BY <1>1, <1>2, <1>3

\* It runs the version it was installed with.
LEMMA VersionsBegin == Init => VInv
BY RunnerConstants DEF Init, VInv, Files, NoVersion, ExecutableInPlace

\* One step.
LEMMA VersionsKept == VInv /\ [Next]_vars => VInv'
BY PollKeepsV, ExecuteKeepsV, OthersKeepV DEF Next

\* Whatever upgrade commands arrive in whatever order, a restart runs the version
\* that polls or a newer one.
THEOREM UpgradesGoUp == Spec => []NoDowngrade
<1>1. VInv => NoDowngrade
  BY DEF VInv, NoDowngrade
<1> QED
  BY <1>1, VersionsBegin, VersionsKept, PTL DEF Spec

\* There is an executable except between the renames or after an interrupted one.
THEOREM ExecutableStays == Spec => []ExecutableInPlace
<1>1. VInv => ExecutableInPlace
  BY DEF VInv
<1> QED
  BY <1>1, VersionsBegin, VersionsKept, PTL DEF Spec

-----------------------------------------------------------------------------
(* The replay cache.                                                       *)

Running == pc \in {"poll", "exec", "swap"}

\* The number of executions whose result was remembered: all but an upgrade that is
\* between its renames.
Remembered == IF pc = "swap" THEN Len(log) - 1 ELSE Len(log)

CacheTypes ==
    /\ log \in Seq(Commands) /\ order \in Seq(Commands) /\ Len(order) <= MaxRecent
    /\ todo \subseteq Commands
    /\ recent \in [Commands -> Result \cup {"none"}]

\* order holds the last executions, as many as fit.
OrderIsSuffix ==
    /\ Len(order) <= Remembered
    /\ Len(order) < MaxRecent => Len(order) = Remembered
    /\ \A i \in 1 .. Len(order) : order[i] = log[Remembered - Len(order) + i]

\* recent has a result exactly for the commands in order, each of which is there once.
RecentIsOrder ==
    /\ \A c \in Commands : recent[c] # "none" <=> \E i \in 1 .. Len(order) : order[i] = c
    /\ \A i, j \in 1 .. Len(order) : order[i] = order[j] => i = j

\* The upgrade under way is the last execution, and not in the cache.
SwapIsLast ==
    pc = "swap" => /\ upgrading \in Commands /\ recent[upgrading] = "none"
                   /\ Len(log) > 0 /\ log[Len(log)] = upgrading

CInv ==
    /\ CacheTypes /\ (Running => OrderIsSuffix /\ RecentIsOrder) /\ SwapIsLast
    /\ ReExecutedOnlyAfterEviction

\* What remember does to order and recent: with d = 1 the cache was full.
LEMMA RememberShape ==
    ASSUME CacheTypes, NEW c \in Commands, NEW r \in Result, Remember(c, r)
    PROVE  \E d \in {0, 1} :
             /\ d = 1 <=> Len(order) = MaxRecent
             /\ order' \in Seq(Commands) /\ Len(order') = Len(order) + 1 - d
             /\ \A i \in 1 .. Len(order') :
                  order'[i] = IF i + d = Len(order) + 1 THEN c ELSE order[i + d]
             /\ recent' \in [Commands -> Result \cup {"none"}]
             /\ \A e \in Commands : recent'[e] = IF d = 1 /\ e = order[1] THEN "none"
                                                 ELSE IF e = c THEN r ELSE recent[e]
<1> DEFINE o == Append(order, c)
<1>1. /\ o \in Seq(Commands) /\ o # << >> /\ Len(o) = Len(order) + 1
      /\ (\A i \in 1 .. Len(order) : o[i] = order[i]) /\ o[Len(order) + 1] = c
  BY AppendProperties DEF CacheTypes
<1>2. /\ Tail(o) \in Seq(Commands) /\ Len(Tail(o)) = Len(order)
      /\ \A i \in 1 .. Len(order) : Tail(o)[i] = o[i + 1]
  <2>1. Len(order) \in Nat
    BY LenProperties DEF CacheTypes
  <2> QED
    BY <1>1, <2>1, HeadTailProperties
<1>3. Len(order) \in Nat /\ MaxRecent \in Nat \ {0}
  BY LenProperties, RunnerConstants DEF CacheTypes
<1>4. Head(o) = o[1]
  BY <1>1
<1>5. /\ order' = IF evict(o) = {} THEN o ELSE Tail(o)
      /\ recent' = [e \in Commands |-> IF e \in evict(o) THEN "none"
                                        ELSE IF e = c THEN r ELSE recent[e]]
  BY DEF Remember
<1> HIDE DEF o
<1>6. recent' \in [Commands -> Result \cup {"none"}]
  BY <1>5 DEF CacheTypes
<1>7. CASE Len(order) = MaxRecent
  <2>1. evict(o) = {order[1]}
    BY <1>1, <1>3, <1>4, <1>7 DEF evict
  <2>2. order' = Tail(o)
    BY <1>5, <2>1
  <2>3. \A i \in 1 .. Len(order) : order'[i] = IF i + 1 = Len(order) + 1 THEN c ELSE order[i + 1]
    BY <1>1, <1>2, <1>3, <2>2
  <2>4. \A e \in Commands : recent'[e] = IF e = order[1] THEN "none"
                                          ELSE IF e = c THEN r ELSE recent[e]
    BY <1>5, <2>1
  <2> WITNESS 1 \in {0, 1}
  <2> QED
    BY <1>2, <1>3, <1>6, <1>7, <2>2, <2>3, <2>4
<1>8. CASE Len(order) # MaxRecent
  <2>1. evict(o) = {}
    BY <1>1, <1>3, <1>8 DEF evict, CacheTypes
  <2>2. order' = o
    BY <1>5, <2>1
  <2>3. \A i \in 1 .. Len(order) + 1 : order'[i] = IF i + 0 = Len(order) + 1 THEN c ELSE order[i + 0]
    BY <1>1, <1>3, <2>2
  <2>4. \A e \in Commands : recent'[e] = IF e = c THEN r ELSE recent[e]
    BY <1>5, <2>1
  <2> WITNESS 0 \in {0, 1}
  <2> QED
    BY <1>1, <1>3, <1>6, <1>8, <2>2, <2>3, <2>4
<1> QED
  BY <1>7, <1>8

\* A result is remembered that was not in the cache, as the last execution.
LEMMA RememberKeeps ==
    ASSUME CacheTypes, OrderIsSuffix, RecentIsOrder, log' \in Seq(Commands), todo' \subseteq Commands,
           NEW c \in Commands, NEW r \in Result, recent[c] = "none", Remember(c, r),
           pc' \in {"poll", "exec"}, Len(log') = Remembered + 1, log'[Len(log')] = c,
           \A i \in 1 .. Remembered : log'[i] = log[i], Remembered \in Nat
    PROVE  CacheTypes' /\ OrderIsSuffix' /\ RecentIsOrder'
<1>1. PICK d \in {0, 1} :
        /\ d = 1 <=> Len(order) = MaxRecent
        /\ order' \in Seq(Commands) /\ Len(order') = Len(order) + 1 - d
        /\ \A i \in 1 .. Len(order') :
             order'[i] = IF i + d = Len(order) + 1 THEN c ELSE order[i + d]
        /\ recent' \in [Commands -> Result \cup {"none"}]
        /\ \A e \in Commands : recent'[e] = IF d = 1 /\ e = order[1] THEN "none"
                                            ELSE IF e = c THEN r ELSE recent[e]
  BY RememberShape
<1>2. Len(order) \in Nat /\ MaxRecent \in Nat \ {0} /\ Len(order) <= MaxRecent /\ d \in Nat
  BY LenProperties, RunnerConstants DEF CacheTypes
<1>3. Remembered' = Remembered + 1 /\ Remembered' = Len(log')
  BY DEF Remembered
<1>4. CacheTypes'
  BY <1>1, <1>2 DEF CacheTypes
<1>5. OrderIsSuffix'
  <2>1. Len(order') <= Remembered' /\ (Len(order') < MaxRecent => Len(order') = Remembered')
    BY <1>1, <1>2, <1>3 DEF OrderIsSuffix
  <2>2. ASSUME NEW i \in 1 .. Len(order')
        PROVE  order'[i] = log'[Remembered' - Len(order') + i]
    <3>1. CASE i + d = Len(order) + 1
      BY <1>1, <1>2, <1>3, <3>1
    <3>2. CASE i + d # Len(order) + 1
      <4>1. i + d \in 1 .. Len(order) /\ order'[i] = order[i + d]
        BY <1>1, <1>2, <3>2
      <4>2. order[i + d] = log[Remembered - Len(order) + (i + d)]
        BY <4>1 DEF OrderIsSuffix
      <4>3. Remembered - Len(order) + (i + d) \in 1 .. Remembered
        BY <1>2, <4>1 DEF OrderIsSuffix
      <4>4. Remembered' - Len(order') + i = Remembered - Len(order) + (i + d)
        BY <1>1, <1>2, <1>3
      <4> QED
        BY <4>1, <4>2, <4>3, <4>4
    <3> QED
      BY <3>1, <3>2
  <2> QED
    BY <2>1, <2>2 DEF OrderIsSuffix
<1>6. RecentIsOrder'
  <2>1. \A i \in 1 .. Len(order) : order[i] # c
    BY DEF RecentIsOrder
  <2>2. ASSUME NEW i \in 1 .. Len(order'), NEW j \in 1 .. Len(order'), order'[i] = order'[j]
        PROVE  i = j
    <3>1. Len(order') = Len(order) + 1 - d
      BY <1>1
    <3>2. /\ i + d = Len(order) + 1 \/ i + d \in 1 .. Len(order)
          /\ j + d = Len(order) + 1 \/ j + d \in 1 .. Len(order)
      BY <1>2, <3>1
    <3>3. /\ i + d = Len(order) + 1 \/ (i + d \in 1 .. Len(order) /\ order'[i] = order[i + d])
          /\ j + d = Len(order) + 1 \/ (j + d \in 1 .. Len(order) /\ order'[j] = order[j + d])
      BY <1>1, <3>2
    <3>4. /\ i + d = Len(order) + 1 => order'[i] = c
          /\ j + d = Len(order) + 1 => order'[j] = c
      BY <1>1
    <3>5. i + d = j + d
      BY <2>1, <2>2, <3>3, <3>4 DEF RecentIsOrder
    <3> QED
      BY <1>2, <3>5
  <2>3. ASSUME NEW e \in Commands
        PROVE  recent'[e] # "none" <=> \E i \in 1 .. Len(order') : order'[i] = e
    <3>1. CASE e = c
      <4>1. Len(order') \in 1 .. Len(order') /\ order'[Len(order')] = c
        BY <1>1, <1>2
      <4>2. recent'[c] = r /\ r # "none"
        BY <1>1, <1>2, <2>1 DEF Result
      <4> QED
        BY <3>1, <4>1, <4>2
    <3>2. CASE e # c /\ d = 0
      <4>1. recent'[e] = recent[e] /\ Len(order') = Len(order) + 1
        BY <1>1, <1>2, <3>2
      <4>2. (\A i \in 1 .. Len(order) : order'[i] = order[i]) /\ order'[Len(order) + 1] = c
        BY <1>1, <1>2, <3>2, <4>1
      <4>3. \A i \in 1 .. Len(order') : i \in 1 .. Len(order) \/ i = Len(order) + 1
        BY <1>2, <4>1
      <4>4. \A i \in 1 .. Len(order) : i \in 1 .. Len(order')
        BY <1>2, <4>1
      <4> QED
        BY <3>2, <4>1, <4>2, <4>3, <4>4 DEF RecentIsOrder
    <3>3. CASE e # c /\ d = 1 /\ e = order[1]
      <4>1. \A i \in 1 .. Len(order') : order'[i] # e
        BY <1>1, <1>2, <3>3 DEF RecentIsOrder
      <4> QED
        BY <1>1, <3>3, <4>1
    <3>4. CASE e # c /\ d = 1 /\ e # order[1]
      <4>1. recent'[e] = recent[e]
        BY <1>1, <3>4
      <4>2. ASSUME NEW i \in 1 .. Len(order), order[i] = e
            PROVE  \E k \in 1 .. Len(order') : order'[k] = e
        <5>1. i - 1 \in 1 .. Len(order') /\ i - 1 + d # Len(order) + 1 /\ i - 1 + d = i
          BY <1>1, <1>2, <3>4, <4>2
        <5> QED
          BY <1>1, <4>2, <5>1
      <4>3. ASSUME NEW i \in 1 .. Len(order'), order'[i] = e
            PROVE  \E k \in 1 .. Len(order) : order[k] = e
        <5>1. i + d \in 1 .. Len(order) /\ order[i + d] = e
          BY <1>1, <1>2, <3>4, <4>3
        <5> QED
          BY <5>1
      <4> QED
        BY <4>1, <4>2, <4>3 DEF RecentIsOrder
    <3> QED
      BY <1>1, <3>1, <3>2, <3>3, <3>4
  <2> QED
    BY <2>2, <2>3 DEF RecentIsOrder
<1> QED
  BY <1>4, <1>5, <1>6

\* Executing a command that is not in the cache keeps repetitions apart.
LEMMA ExecutionIsSpaced ==
    ASSUME CInv, pc \in {"poll", "exec"}, NEW c \in Commands, recent[c] = "none",
           log' = Append(log, c)
    PROVE  /\ ReExecutedOnlyAfterEviction' /\ log' \in Seq(Commands)
           /\ Len(log') = Len(log) + 1 /\ log'[Len(log')] = c
           /\ \A i \in 1 .. Len(log) : log'[i] = log[i]
<1>1. /\ log' \in Seq(Commands) /\ Len(log') = Len(log) + 1 /\ log'[Len(log')] = c
      /\ \A i \in 1 .. Len(log) : log'[i] = log[i]
  BY AppendProperties DEF CInv, CacheTypes
<1>2. Len(log) \in Nat /\ Len(order) \in Nat /\ MaxRecent \in Nat
  BY LenProperties, RunnerConstants DEF CInv, CacheTypes
<1>3. DOMAIN log' = 1 .. Len(log) + 1 /\ DOMAIN log = 1 .. Len(log)
  BY <1>1, LenProperties DEF CInv, CacheTypes
<1>4. OrderIsSuffix /\ RecentIsOrder /\ Remembered = Len(log)
  BY DEF CInv, Running, Remembered
<1>5. ASSUME NEW i \in 1 .. Len(log), log[i] = c
      PROVE  Len(log) + 1 - i > MaxRecent
  <2>1. i <= Len(log) - Len(order)
    <3> SUFFICES ASSUME i > Len(log) - Len(order)
                 PROVE  FALSE
      BY <1>2
    <3> DEFINE k == i - (Len(log) - Len(order))
    <3>1. k \in 1 .. Len(order) /\ Remembered - Len(order) + k = i
      BY <1>2, <1>4 DEF OrderIsSuffix
    <3>2. order[k] = c
      BY <1>4, <1>5, <3>1 DEF OrderIsSuffix
    <3> QED
      BY <1>4, <3>1, <3>2 DEF RecentIsOrder
  <2>2. Len(order) = MaxRecent
    BY <1>2, <1>4, <2>1 DEF OrderIsSuffix, CInv, CacheTypes
  <2> QED
    BY <1>2, <2>1, <2>2
<1>6. ReExecutedOnlyAfterEviction'
  <2> SUFFICES ASSUME NEW i \in 1 .. Len(log) + 1, NEW j \in 1 .. Len(log) + 1, i < j,
                      log'[i] = log'[j]
               PROVE  j - i > MaxRecent
    BY <1>3 DEF ReExecutedOnlyAfterEviction
  <2>1. CASE j = Len(log) + 1
    BY <1>1, <1>2, <1>5, <2>1
  <2>2. CASE j # Len(log) + 1
    BY <1>1, <1>2, <1>3, <2>2 DEF CInv, ReExecutedOnlyAfterEviction
  <2> QED
    BY <2>1, <2>2
<1> QED
  BY <1>1, <1>6

\* The commands of an answer, one by one.
LEMMA ExecuteKeepsC ==
    ASSUME CInv, Execute
    PROVE  CInv'
<1>1. ASSUME NEW c \in Commands, ExecReplay(c)
      PROVE  CInv'
  BY <1>1 DEF ExecReplay, Reply, CInv, CacheTypes, Running, OrderIsSuffix, Remembered, RecentIsOrder,
              SwapIsLast, ReExecutedOnlyAfterEviction
<1>2. ASSUME NEW c \in Commands, UpgradeBackup(c)
      PROVE  CInv'
  <2>1. /\ pc = "exec" /\ pc' = "swap" /\ recent[c] = "none" /\ log' = Append(log, c)
        /\ upgrading' = c /\ UNCHANGED <<recent, order, todo>>
    BY <1>2 DEF UpgradeBackup
  <2>2. /\ ReExecutedOnlyAfterEviction' /\ log' \in Seq(Commands)
        /\ Len(log') = Len(log) + 1 /\ log'[Len(log')] = c
        /\ \A i \in 1 .. Len(log) : log'[i] = log[i]
    BY <2>1, ExecutionIsSpaced
  <2>3. Len(log) \in Nat /\ Len(order) \in Nat
    BY LenProperties DEF CInv, CacheTypes
  <2>4. Remembered = Len(log) /\ Remembered' = Len(log) /\ OrderIsSuffix /\ RecentIsOrder
    BY <2>1, <2>2, <2>3 DEF Remembered, CInv, Running
  <2>5. \A i \in 1 .. Len(order) : Remembered - Len(order) + i \in 1 .. Len(log)
    BY <2>3, <2>4 DEF OrderIsSuffix
  <2>6. OrderIsSuffix' /\ RecentIsOrder'
    BY <2>1, <2>2, <2>4, <2>5 DEF OrderIsSuffix, RecentIsOrder
  <2> QED
    BY <2>1, <2>2, <2>3, <2>6 DEF CInv, CacheTypes, SwapIsLast
<1>3. ASSUME NEW c \in Commands, NEW r \in Result, pc = "exec", recent[c] = "none",
             log' = Append(log, c), Reply(c, r), Remember(c, r)
      PROVE  CInv'
  <2>1. /\ ReExecutedOnlyAfterEviction' /\ log' \in Seq(Commands)
        /\ Len(log') = Len(log) + 1 /\ log'[Len(log')] = c
        /\ \A i \in 1 .. Len(log) : log'[i] = log[i]
    BY <1>3, ExecutionIsSpaced
  <2>2. /\ Remembered = Len(log) /\ Len(log) \in Nat /\ CacheTypes /\ OrderIsSuffix
        /\ RecentIsOrder
    BY <1>3, LenProperties DEF Remembered, CInv, CacheTypes, Running
  <2>3. pc' \in {"poll", "exec"} /\ todo' \subseteq Commands
    BY <1>3, <2>2 DEF Reply, CacheTypes
  <2>4. CacheTypes' /\ OrderIsSuffix' /\ RecentIsOrder'
    BY <1>3, <2>1, <2>2, <2>3, RememberKeeps
  <2> QED
    BY <2>1, <2>3, <2>4 DEF CInv, SwapIsLast
<1>4. ASSUME NEW r \in Result, pc = "swap", UNCHANGED log, Reply(upgrading, r),
             Remember(upgrading, r)
      PROVE  CInv'
  <2>1. /\ upgrading \in Commands /\ recent[upgrading] = "none" /\ Len(log) > 0
        /\ log[Len(log)] = upgrading /\ CacheTypes /\ OrderIsSuffix /\ RecentIsOrder
    BY <1>4 DEF CInv, SwapIsLast, Running
  <2>2. Len(log) \in Nat /\ Remembered = Len(log) - 1 /\ Remembered \in Nat
    BY <1>4, <2>1, LenProperties DEF CacheTypes, Remembered
  <2>3. pc' \in {"poll", "exec"} /\ todo' \subseteq Commands /\ log' \in Seq(Commands)
    BY <1>4, <2>1 DEF Reply, CacheTypes
  <2>4. CacheTypes' /\ OrderIsSuffix' /\ RecentIsOrder'
    BY <1>4, <2>1, <2>2, <2>3, RememberKeeps
  <2>5. ReExecutedOnlyAfterEviction'
    BY <1>4 DEF CInv, ReExecutedOnlyAfterEviction
  <2> QED
    BY <2>3, <2>4, <2>5 DEF CInv, SwapIsLast
<1>5. ASSUME NEW c \in Commands, UpgradeBackupFails(c)
      PROVE  CInv'
  BY <1>3, <1>5 DEF UpgradeBackupFails, Result
<1>6. ASSUME NEW c \in Commands, NEW r \in Result, Exec(c, r)
      PROVE  CInv'
  BY <1>3, <1>6 DEF Exec
<1>7. CASE UpgradeSwap
  BY <1>4, <1>7 DEF UpgradeSwap, Result
<1>8. ASSUME NEW restored \in BOOLEAN, UpgradeSwapFails(restored)
      PROVE  CInv'
  BY <1>4, <1>8 DEF UpgradeSwapFails, Result
<1> QED
  BY <1>1, <1>2, <1>5, <1>6, <1>7, <1>8 DEF Execute

\* Polls, deaths, restarts and the backend leave the cache alone or begin a new one.
LEMMA OthersKeepC ==
    ASSUME CInv,
           \/ Poll \/ ExitZero \/ Crash \/ Boot \/ Reboot
           \/ (\E removed \in BOOLEAN : Cleanup(removed))
           \/ (\E c \in Commands : Queue(c)) \/ Revoke \/ UNCHANGED vars
    PROVE  CInv'
<1>1. CASE Boot
  <2>1. /\ log' = << >> /\ order' = << >> /\ recent' = [c \in Commands |-> "none"]
        /\ todo' = {} /\ pc' # "swap"
    BY <1>1 DEF Boot, FreshMemory
  <2>2. log' \in Seq(Commands) /\ order' \in Seq(Commands) /\ Len(order') = 0 /\ Len(log') = 0
        /\ DOMAIN log' = {}
    BY <2>1, EmptySeq
  <2> QED
    BY <2>1, <2>2, RunnerConstants DEF CInv, CacheTypes, OrderIsSuffix, Remembered, RecentIsOrder,
                                      SwapIsLast, ReExecutedOnlyAfterEviction
<1>2. CASE ~Boot
  <2>1. UNCHANGED <<log, order, recent, upgrading>>
    BY <1>2 DEF Poll, PollOk, PollFail, PollTerminal, ExitZero, Crash, Reboot, Cleanup, Queue,
                Revoke, vars, memory
  <2>2. todo' \subseteq Commands
    BY <1>2 DEF Poll, PollOk, PollFail, PollTerminal, ExitZero, Crash, Reboot, Cleanup, Queue,
                Revoke, vars, memory, CInv, CacheTypes
  <2>3. /\ (pc' = "swap" <=> pc = "swap") \/ pc' \notin {"poll", "exec", "swap"}
        /\ Running' => Running
    BY <1>2 DEF Poll, PollOk, PollFail, PollTerminal, ExitZero, Crash, Reboot, Cleanup, Queue,
                Revoke, vars, Running
  <2> QED
    BY <2>1, <2>2, <2>3 DEF CInv, CacheTypes, Running, OrderIsSuffix, Remembered, RecentIsOrder,
                            SwapIsLast, ReExecutedOnlyAfterEviction
<1> QED
  BY <1>1, <1>2

\* Its cache is empty.
LEMMA CacheBegins == Init => CInv
<1> SUFFICES ASSUME Init
             PROVE  CInv
  OBVIOUS
<1>1. log \in Seq(Commands) /\ order \in Seq(Commands) /\ Len(order) = 0 /\ Len(log) = 0
      /\ DOMAIN log = {}
  BY EmptySeq DEF Init
<1> QED
  BY <1>1, RunnerConstants DEF Init, CInv, CacheTypes, OrderIsSuffix, Remembered, RecentIsOrder,
                               SwapIsLast, ReExecutedOnlyAfterEviction

\* One step.
LEMMA CacheKept == CInv /\ [Next]_vars => CInv'
BY ExecuteKeepsC, OthersKeepC DEF Next

\* However often a command is delivered, within one boot maxRecent other executions
\* lie between two of its executions, for every maxRecent.
THEOREM RepeatsAreFarApart == Spec => []ReExecutedOnlyAfterEviction
<1>1. CInv => ReExecutedOnlyAfterEviction
  BY DEF CInv
<1> QED
  BY <1>1, CacheBegins, CacheKept, PTL DEF Spec

-----------------------------------------------------------------------------
(* Types.                                                                  *)

\* The sets; a process that polls runs a version that exists.
RunTypes ==
    /\ pc \in PcState /\ why \in {"none", "upgraded", "rollback"}
    /\ upgrading \in Commands \cup {NoCmd} /\ pendingAcks \subseteq Ack
    /\ queued \subseteq Commands /\ acked \subseteq Commands /\ verified \subseteq Versions
    /\ pc \in {"poll", "exec", "swap"} => version \in Versions

\* The counters.
RunCounts == consecutiveFailures \in 0 .. RollbackThreshold /\ crashes \in 0 .. MaxCrashes

\* The Booleans.
RunFlags ==
    pendingExit \in BOOLEAN /\ node \in BOOLEAN /\ revoked \in BOOLEAN /\ torn \in BOOLEAN

LEMMA RunCountsKept == ASSUME RunCounts, [Next]_vars PROVE RunCounts'
<1> USE RunnerConstants DEF RunCounts, memory
<1>1. CASE Poll
  <2>1. UNCHANGED crashes
    BY <1>1 DEF Poll, PollOk, PollFail, PollTerminal
  <2>2. \/ consecutiveFailures' = 0
        \/ consecutiveFailures' = IF consecutiveFailures = RollbackThreshold
                                  THEN consecutiveFailures ELSE consecutiveFailures + 1
        \/ consecutiveFailures' = consecutiveFailures
    BY <1>1 DEF Poll, PollOk, PollFail, PollTerminal
  <2> QED
    BY <2>1, <2>2
<1>2. CASE Execute
  <2>1. UNCHANGED <<consecutiveFailures, crashes>>
    BY <1>2 DEF Execute, ExecReplay, UpgradeBackup, UpgradeBackupFails, Exec, UpgradeSwap,
                UpgradeSwapFails
  <2> QED
    BY <2>1
<1>3. CASE Crash
  BY <1>3 DEF Crash
<1>4. CASE \/ ExitZero \/ Reboot \/ (\E removed \in BOOLEAN : Cleanup(removed))
           \/ (\E c \in Commands : Queue(c)) \/ Revoke \/ UNCHANGED vars
  <2>1. UNCHANGED <<consecutiveFailures, crashes>>
    BY <1>4 DEF ExitZero, Reboot, Cleanup, Queue, Revoke, vars
  <2> QED
    BY <2>1
<1>5. CASE Boot
  BY <1>5 DEF Boot, FreshMemory
<1> QED
  BY <1>1, <1>2, <1>3, <1>4, <1>5 DEF Next

LEMMA RunFlagsKept == ASSUME RunFlags, [Next]_vars PROVE RunFlags'
<1> USE DEF RunFlags, memory, disk, backend
<1>1. CASE Poll
  BY <1>1 DEF Poll, PollOk, PollFail, PollTerminal
<1>2. CASE Execute
  BY <1>2 DEF Execute, ExecReplay, UpgradeBackup, UpgradeBackupFails, Exec, UpgradeSwap,
              UpgradeSwapFails
<1>3. CASE ExitZero \/ Reboot \/ (\E removed \in BOOLEAN : Cleanup(removed))
  BY <1>3 DEF ExitZero, Reboot, Cleanup
<1>4. CASE Crash \/ (\E c \in Commands : Queue(c)) \/ Revoke \/ UNCHANGED vars
  BY <1>4 DEF Crash, Queue, Revoke, vars
<1>5. CASE Boot
  BY <1>5 DEF Boot, FreshMemory
<1> QED
  BY <1>1, <1>2, <1>3, <1>4, <1>5 DEF Next

\* An answer adds an acknowledgement.
LEMMA ReplyTypes ==
    ASSUME pendingAcks \subseteq Ack, NEW c \in Commands, NEW r \in Result, Reply(c, r)
    PROVE  pendingAcks' \subseteq Ack /\ pc' \in {"poll", "exec"}
BY DEF Reply, Ack

LEMMA RunTypesKept == ASSUME RunTypes, VInv, CInv, [Next]_vars PROVE RunTypes'
<1> USE DEF RunTypes, PcState, memory, disk, backend
<1>1. ASSUME NEW confirmed, NEW cmds, PollOk(confirmed, cmds) PROVE RunTypes'
  <2>1. Ids(pendingAcks) \subseteq Commands
    BY DEF Ids, Ack
  <2>2. pendingAcks' \subseteq Ack /\ acked' \subseteq Commands /\ verified' \subseteq Versions
    BY <1>1, <2>1 DEF PollOk, dropAcked
  <2> QED
    BY <1>1, <2>2 DEF PollOk
<1>2. ASSUME NEW processed \in BOOLEAN, NEW rollbackOk \in BOOLEAN,
             PollFail(processed, rollbackOk)
      PROVE  RunTypes'
  <2>1. Ids(pendingAcks) \subseteq Commands
    BY DEF Ids, Ack
  <2>2. acked' \subseteq Commands
    BY <1>2, <2>1 DEF PollFail
  <2>3. pc' \in {pc, "exiting"} /\ why' \in {why, "rollback"}
    BY <1>2 DEF PollFail
  <2>4. UNCHANGED <<version, pendingAcks, upgrading, queued, verified>>
    BY <1>2 DEF PollFail
  <2> QED
    BY <2>2, <2>3, <2>4
<1>3. CASE PollTerminal
  BY <1>3 DEF PollTerminal
<1>4. ASSUME NEW c \in Commands, ExecReplay(c) PROVE RunTypes'
  <2>1. recent[c] \in Result
    BY <1>4 DEF ExecReplay, CInv, CacheTypes
  <2>2. pendingAcks' \subseteq Ack /\ pc' \in {"poll", "exec"}
    BY <1>4, <2>1, ReplyTypes DEF ExecReplay
  <2> QED
    BY <1>4, <2>2 DEF ExecReplay
<1>5. ASSUME NEW c \in Commands, NEW r \in Result, Exec(c, r) PROVE RunTypes'
  <2>1. pendingAcks' \subseteq Ack /\ pc' \in {"poll", "exec"}
    BY <1>5, ReplyTypes DEF Exec
  <2> QED
    BY <1>5, <2>1 DEF Exec
<1>6. ASSUME NEW c \in Commands, UpgradeBackup(c) PROVE RunTypes'
  BY <1>6 DEF UpgradeBackup
<1>7. ASSUME NEW c \in Commands, UpgradeBackupFails(c) PROVE RunTypes'
  <2>1. pendingAcks' \subseteq Ack /\ pc' \in {"poll", "exec"}
    BY <1>7, ReplyTypes DEF UpgradeBackupFails, Result
  <2> QED
    BY <1>7, <2>1 DEF UpgradeBackupFails
<1>8. CASE UpgradeSwap \/ \E restored \in BOOLEAN : UpgradeSwapFails(restored)
  <2>1. pc = "swap" /\ upgrading \in Commands
    BY <1>8 DEF UpgradeSwap, UpgradeSwapFails, VInv
  <2>2. Reply(upgrading, "done") \/ Reply(upgrading, "failed")
    BY <1>8 DEF UpgradeSwap, UpgradeSwapFails
  <2>3. pendingAcks' \subseteq Ack /\ pc' \in {"poll", "exec"}
    BY <2>1, <2>2, ReplyTypes DEF Result
  <2>4. upgrading' = NoCmd /\ UNCHANGED <<version, queued, acked, verified, why>>
    BY <1>8 DEF UpgradeSwap, UpgradeSwapFails
  <2> QED
    BY <2>1, <2>3, <2>4
<1>9. CASE ExitZero \/ Crash \/ Reboot \/ \E removed \in BOOLEAN : Cleanup(removed)
  BY <1>9 DEF ExitZero, Crash, Reboot, Cleanup
<1>10. CASE Boot
  <2>1. exe \in Versions
    BY <1>10 DEF Boot, VInv, Files
  <2> QED
    BY <1>10, <2>1 DEF Boot, FreshMemory
<1>11. CASE (\E c \in Commands : Queue(c)) \/ Revoke \/ UNCHANGED vars
  BY <1>11 DEF Queue, Revoke, vars
<1> QED
  BY <1>1, <1>2, <1>3, <1>4, <1>5, <1>6, <1>7, <1>8, <1>9, <1>10, <1>11 DEF Next, Poll, Execute

\* The variables keep their types: the failure count stays within the rollback
\* threshold, the cache within its size, and only versions that exist are run.
THEOREM TypeCorrect == Spec => []TypeOK
<1>1. Init => RunTypes
  BY RunnerConstants DEF Init, RunTypes, PcState
<1>2. Init => RunCounts
  BY RunnerConstants DEF Init, RunCounts
<1>3. Init => RunFlags
  BY DEF Init, RunFlags
<1>4. RunCounts /\ [Next]_vars => RunCounts'
  BY RunCountsKept
<1>5. RunFlags /\ [Next]_vars => RunFlags'
  BY RunFlagsKept
<1>6. RunTypes /\ VInv /\ CInv /\ [Next]_vars => RunTypes'
  BY RunTypesKept
<1>7. RunTypes /\ RunCounts /\ RunFlags /\ VInv /\ CInv => TypeOK
  BY DEF RunTypes, RunCounts, RunFlags, VInv, Files, CInv, CacheTypes, TypeOK
<1> QED
  BY <1>1, <1>2, <1>3, <1>4, <1>5, <1>6, <1>7, VersionsBegin, VersionsKept, CacheBegins, CacheKept,
     PTL DEF Spec

=============================================================================
