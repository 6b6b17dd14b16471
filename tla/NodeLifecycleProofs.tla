------------------------- MODULE NodeLifecycleProofs -------------------------
(***************************************************************************)
(* Proofs about NodeLifecycle and its tunnels, for any set of sessions and *)
(* users, any limit and any number of tokens, installations and faults.    *)
(***************************************************************************)
EXTENDS NodeLifecycle, FiniteSetTheorems, TLAPS

-----------------------------------------------------------------------------
(* The tunnels.                                                            *)

\* The positions of handleRevoked after CloseAll.
Closed == {"clear", "stop", "clean", "quit", "done"}

TunnelTypes ==
    /\ active \subseteq Sessions /\ IsFiniteSet(active)
    /\ sock \in [Sessions -> {"open", "closed"}]
    /\ serve \in [Sessions -> {"none", "ssh", "delete"}]

\* A connection is open only as long as it is in the map: serve closes it before it
\* deletes the entry.
OpenIsActive == \A s \in Sessions : sock[s] = "open" => s \in active /\ serve[s] # "delete"

\* Only a Runner that polls is inside Open.
DialsWhilePolling == dialing # {} => run = "poll"

\* There is room for the session Open is dialing for: nobody else adds one.
RoomIsKept ==
    /\ Cardinality(active) <= MaxOpen
    /\ dialing # {} => Cardinality(active) < MaxOpen

\* After CloseAll every open connection has its context cancelled.
CancelReaches == run \in Closed => \A s \in Sessions : sock[s] = "open" => s \in cancelled

TInv == TunnelTypes /\ OpenIsActive /\ DialsWhilePolling /\ RoomIsKept /\ CancelReaches

\* No tunnel at all satisfies the invariant, before the first Boot and after the end
\* of a process.
LEMMA NoTunnels ==
    ASSUME active = {}, dialing = {}, run = "none", sock = [s \in Sessions |-> "closed"],
           serve = [s \in Sessions |-> "none"]
    PROVE  TInv
<1>1. IsFiniteSet(active) /\ Cardinality(active) = 0
  BY FS_EmptySet
<1>2. MaxOpen \in Nat \ {0}
  BY TunnelConstants
<1> QED
  BY <1>1, <1>2 DEF TInv, TunnelTypes, OpenIsActive, DialsWhilePolling, RoomIsKept, CancelReaches,
                    Closed

\* The same for the next state.
LEMMA NoTunnelsNext ==
    ASSUME Death
    PROVE  TInv'
<1>1. /\ active' = {} /\ dialing' = {} /\ run' = "none"
      /\ sock' = [s \in Sessions |-> "closed"] /\ serve' = [s \in Sessions |-> "none"]
  BY DEF Death, TunnelsDie
<1>2. IsFiniteSet(active') /\ Cardinality(active') = 0
  BY <1>1, FS_EmptySet
<1>3. MaxOpen \in Nat \ {0}
  BY TunnelConstants
<1> QED
  BY <1>1, <1>2, <1>3 DEF TInv, TunnelTypes, OpenIsActive, DialsWhilePolling, RoomIsKept,
                          CancelReaches, Closed

\* A step that leaves the tunnels alone, does not take the Runner out of a dial and
\* does not pretend that CloseAll was called.
LEMMA TunnelFrame ==
    ASSUME TInv, UNCHANGED tunnels, dialing # {} => run' = run,
           run' \in Closed => run \in Closed
    PROVE  TInv'
BY DEF TInv, tunnels, TunnelTypes, OpenIsActive, DialsWhilePolling, RoomIsKept, CancelReaches

\* The three steps of Open.
LEMMA OpenKeeps ==
    ASSUME TInv, OpenTunnel
    PROVE  TInv'
<1>1. run = "poll" /\ run' = run /\ run \notin Closed
  BY DEF OpenTunnel, Tunnels, process, Closed
<1>2. PICK s \in Sessions : OpenBegin(s) \/ OpenFails(s) \/ OpenOk(s)
  BY DEF OpenTunnel, Tunnels
<1>3. MaxOpen \in Nat /\ Cardinality(active) \in Nat
  BY TunnelConstants, FS_CardinalityType DEF TInv, TunnelTypes
<1>4. CASE OpenBegin(s)
  BY <1>1, <1>3, <1>4 DEF OpenBegin, Admits, TInv, TunnelTypes, OpenIsActive, DialsWhilePolling,
                          RoomIsKept, CancelReaches
<1>5. CASE OpenFails(s)
  BY <1>1, <1>5 DEF OpenFails, TInv, TunnelTypes, OpenIsActive, DialsWhilePolling, RoomIsKept,
                    CancelReaches
<1>6. CASE OpenOk(s)
  <2>1. active' = active \cup {s} /\ dialing' = {} /\ dialing # {}
    BY <1>6 DEF OpenOk
  <2>2. IsFiniteSet(active') /\ Cardinality(active') <= Cardinality(active) + 1
    <3>1. IsFiniteSet(active)
      BY DEF TInv, TunnelTypes
    <3>2. /\ IsFiniteSet(active \cup {s})
          /\ Cardinality(active \cup {s}) = IF s \in active THEN Cardinality(active)
                                                           ELSE Cardinality(active) + 1
      BY <3>1, FS_AddElement
    <3> QED
      BY <1>3, <2>1, <3>2
  <2>3. Cardinality(active') \in Nat
    BY <2>2, FS_CardinalityType
  <2>4. RoomIsKept'
    BY <1>3, <2>1, <2>2, <2>3 DEF RoomIsKept, TInv
  <2>5. TunnelTypes' /\ OpenIsActive'
    BY <1>6, <2>1, <2>2 DEF OpenOk, TInv, TunnelTypes, OpenIsActive
  <2> QED
    BY <1>1, <2>1, <2>4, <2>5 DEF TInv, DialsWhilePolling, CancelReaches
<1> QED
  BY <1>2, <1>4, <1>5, <1>6

\* The goroutines of a session and its far end.
LEMMA ServeKeeps ==
    ASSUME TInv, NEW s \in Sessions, Tunnels(ServeStep(s)) \/ Tunnels(PeerLeaves(s))
    PROVE  TInv'
<1>1. UNCHANGED <<run, dialing>>
  BY DEF Tunnels, ServeStep, ServeEnds, ServeDeletes, WatcherCloses, PeerLeaves, process
<1>2. CASE ServeEnds(s)
  BY <1>1, <1>2 DEF ServeEnds, TInv, TunnelTypes, OpenIsActive, DialsWhilePolling, RoomIsKept,
                    CancelReaches
<1>3. CASE ServeDeletes(s)
  <2>1. active' = active \ {s}
    BY <1>3 DEF ServeDeletes
  <2>2. /\ IsFiniteSet(active') /\ Cardinality(active') <= Cardinality(active)
        /\ Cardinality(active') \in Nat /\ Cardinality(active) \in Nat
    BY <2>1, FS_Subset, FS_CardinalityType DEF TInv, TunnelTypes
  <2>3. RoomIsKept'
    BY <1>1, <2>2, TunnelConstants DEF RoomIsKept, TInv
  <2>4. sock' = sock /\ sock[s] # "open"
    BY <1>3 DEF ServeDeletes, TInv, OpenIsActive
  <2> QED
    BY <1>1, <1>3, <2>1, <2>2, <2>3, <2>4 DEF ServeDeletes, TInv, TunnelTypes, OpenIsActive,
                                              DialsWhilePolling, CancelReaches
<1>4. CASE WatcherCloses(s)
  BY <1>1, <1>4 DEF WatcherCloses, TInv, TunnelTypes, OpenIsActive, DialsWhilePolling, RoomIsKept,
                    CancelReaches
<1>5. CASE PeerLeaves(s)
  BY <1>1, <1>5 DEF PeerLeaves, TInv, TunnelTypes, OpenIsActive, DialsWhilePolling, RoomIsKept,
                    CancelReaches
<1> QED
  BY <1>2, <1>3, <1>4, <1>5 DEF Tunnels, ServeStep

\* CloseAll.
LEMMA CloseKeeps ==
    ASSUME TInv, RevokedCloses
    PROVE  TInv'
BY DEF RevokedCloses, CloseAll, TInv, TunnelTypes, OpenIsActive, DialsWhilePolling, RoomIsKept,
       CancelReaches

\* All other steps leave the tunnels alone, or end the process.
LEMMA OthersKeep ==
    ASSUME TInv,
           \/ Installer \/ Boot \/ InitLocalMode \/ RegisterAnswered \/ RegisterLost
           \/ RegisterRejected \/ RegisterSaves \/ MainStart \/ MainExits \/ PollTerminal
           \/ RevokedClears \/ RevokedStops \/ RevokedCleans \/ RevokedQuits
           \/ (\E u \in Users : CreateUser(u)) \/ RegenLists \/ RegenApplies
           \/ TokenLost \/ Delete \/ Crash \/ Reboot \/ Corrupt
    PROVE  TInv'
<1>1. CASE \/ (\E t \in 1 .. MaxTokens : InstallBegin(t))
           \/ (\E code : RegisterRefused(code)) \/ MainExits \/ Crash
  BY <1>1, NoTunnelsNext DEF InstallBegin, RegisterRefused, MainExits, Crash
<1>2. CASE \/ InstallClean \/ InstallStart \/ InstallSeen \/ InstallSeenLate \/ InstallFails
           \/ Boot \/ RegisterOk \/ RegisterLost \/ MainStart \/ (\E u \in Users : CreateUser(u))
           \/ RegenLists \/ RegenApplies \/ TokenLost \/ Delete \/ Reboot \/ Corrupt
  <2>1. UNCHANGED <<tunnels, run>>
    BY <1>2 DEF InstallClean, InstallStart, InstallSeen, InstallSeenLate, InstallFails, Boot,
                RegisterOk, RegisterLost, Accepted, MainStart, CreateUser, RegenLists,
                RegenApplies, TokenLost, Delete, Reboot, Corrupt, process
  <2> QED
    BY <2>1, TunnelFrame
<1>3. CASE InitLocalMode \/ RegisterSaves
  <2>1. UNCHANGED tunnels /\ (run' = "poll" \/ run' = run)
    BY <1>3 DEF InitLocalMode, RegisterSaves, Enroll, SaveNodeFile
  <2>2. "poll" \notin Closed
    BY DEF Closed
  <2> QED
    BY <2>1, <2>2, TunnelFrame DEF TInv, DialsWhilePolling
<1>4. CASE PollTerminal
  <2>1. UNCHANGED tunnels /\ run' = "close" /\ dialing = {}
    BY <1>4 DEF PollTerminal
  <2>2. "close" \notin Closed
    BY DEF Closed
  <2> QED
    BY <2>1, <2>2, TunnelFrame
<1>5. CASE RevokedClears \/ RevokedStops \/ RevokedCleans \/ RevokedQuits
  <2>1. UNCHANGED tunnels /\ run \in Closed /\ run # "poll"
    BY <1>5 DEF RevokedClears, RevokedStops, RevokedCleans, RevokedQuits, Closed
  <2> QED
    BY <2>1, TunnelFrame DEF TInv, DialsWhilePolling
<1> QED
  BY <1>1, <1>2, <1>3, <1>4, <1>5 DEF Installer, RegisterAnswered, RegisterRejected

\* One step of the node.
LEMMA TunnelsKept == TInv /\ [Next]_vars => TInv'
<1>1. ASSUME TInv, UNCHANGED vars
      PROVE  TInv'
  <2>1. UNCHANGED <<tunnels, run>>
    BY <1>1 DEF vars, process
  <2> QED
    BY <1>1, <2>1, TunnelFrame
<1>2. ASSUME TInv, Next
      PROVE  TInv'
  BY <1>2, OpenKeeps, ServeKeeps, CloseKeeps, OthersKeep DEF Next, Agent, handleRevoked
<1> QED
  BY <1>1, <1>2

\* A machine without an agent has no tunnel.
LEMMA TunnelsBegin == Init => TInv
BY NoTunnels DEF Init, TunnelInit

\* There are never more tunnels than maxOpen, for any limit and any number of
\* sessions, although Manager.Open gives its lock up between check and entry.
THEOREM TunnelLimit == Spec => []AtMostMaxOpen
<1>1. TInv => AtMostMaxOpen
  <2> SUFFICES ASSUME TInv
               PROVE  Cardinality(Open) <= MaxOpen
    BY DEF AtMostMaxOpen
  <2>1. Open \subseteq active
    BY DEF Open, TInv, OpenIsActive
  <2>2. /\ Cardinality(Open) <= Cardinality(active)
        /\ Cardinality(Open) \in Nat /\ Cardinality(active) \in Nat
    BY <2>1, FS_Subset, FS_CardinalityType DEF TInv, TunnelTypes
  <2> QED
    BY <2>2, TunnelConstants DEF TInv, RoomIsKept
<1> QED
  BY <1>1, TunnelsBegin, TunnelsKept, PTL DEF Spec

\* A deleted node keeps no tunnel: what CloseAll does not see was closed before.
THEOREM CloseAllReaches == Spec => []RevocationReachesEveryTunnel
<1>1. TInv => RevocationReachesEveryTunnel
  BY DEF TInv, CancelReaches, RevocationReachesEveryTunnel, Open, Closed
<1> QED
  BY <1>1, TunnelsBegin, TunnelsKept, PTL DEF Spec

-----------------------------------------------------------------------------
(* Token, credentials and users.                                           *)

\* The tokens that were used, by this machine or by another.
UsedTokens == {t \in 1 .. MaxTokens : tok[t] = "used"}

\* The unit and the process have the installer's token or none.
TokenTypes ==
    /\ mine \in 0 .. MaxTokens /\ unit \in {0, mine} /\ env \in {0, mine}
    /\ main = "register" => env # 0
    /\ tok \in [1 .. MaxTokens -> {"none", "fresh", "used", "expired"}]
    /\ gen \in 0 .. MaxTokens

\* A token is issued once, and a secret costs a token.
SecretsCost ==
    /\ issued \in 0 .. MaxTokens /\ installs \in 0 .. MaxInstalls
    /\ \A t \in 1 .. MaxTokens : t > issued => tok[t] = "none"
    /\ gen <= Cardinality(UsedTokens)

BInv == TokenTypes /\ SecretsCost

RegistrationTypes == before \in Nat /\ before <= gen /\ node \in 0 .. Half

\* Where the installer, the process and its goroutines can be at the same time.
Positions ==
    /\ inst \in {"clean", "start"} => proc = "absent" /\ mine > 0
    /\ inst = "start" => node = 0
    /\ inst \in {"wait", "ok"} => proc # "absent"
    /\ proc # "up" => main = "none" /\ run = "none"
    /\ main \in {"none", "init", "register", "save"} => run = "none"

\* Every secret of this installation was bought with its token, by an agent the
\* script has started; and a token that was refused as used buys none.
TokensBuySecrets ==
    /\ Bought \/ refused = "used" => mine > 0 /\ tok[mine] = "used"
    /\ inst \in {"clean", "start"} => ~Bought
    /\ main = "save" => secret = gen /\ Bought
    /\ proc # "absent" /\ (node # 0 \/ run # "none") => Bought

\* Credentials that can be read are the last ones issued; they are read before a
\* registration begins, and cannot be read for any reason but damage.
CredentialsCurrent ==
    /\ Usable => node = gen
    /\ main \in {"register", "save"} => ~Usable
    /\ proc # "absent" /\ node = Half => corrupted

\* An agent without credentials has a token, and if that has bought a secret the
\* secret was lost, removed or damaged.
WayBack ==
    /\ proc # "absent" /\ unit = 0 /\ ~Usable => cleaned \/ corrupted
    /\ proc # "absent" /\ Bought /\ ~Usable /\ main # "save" => orphan \/ cleaned \/ corrupted

\* After the removal of the credentials of a deleted node nobody polls, and nobody
\* registers, until the next installation.
CleanedIsFinal ==
    cleaned => node = 0 /\ Bought /\ run \in {"quit", "done", "none"} /\ main # "save"

CInv ==
    /\ RegistrationTypes /\ Positions /\ TokensBuySecrets /\ CredentialsCurrent /\ WayBack
    /\ CleanedIsFinal /\ RefusedOnlyIfSpent /\ (inst = "ok" => Bought)

UsersAreBorn ==
    mem \subseteq born /\ disk \subseteq born /\ doomed \subseteq born

Gone(U) == U \cap doomed = {}

\* Once handleRevoked has cleared the Store its users are gone from it.
ClearedStore ==
    ~damaged /\ run \in {"stop", "clean", "quit", "done"} => Gone(mem) /\ Gone(disk)

\* An agent that starts on a deleted node serves what is left.
CleanStart ==
    cleaned /\ ~damaged /\ run = "none" =>
        /\ Gone(mem) /\ Gone(disk) /\ Gone(served) /\ \A U \in regen : Gone(U)
        /\ main \in {"register", "start", "loop"} => Gone(conf)

\* A process that is not up has no state.
NothingLeft == proc # "up" => mem = {} /\ served = {} /\ regen = {} /\ waiting = 0

UInv == UsersAreBorn /\ ClearedStore /\ CleanStart /\ NothingLeft

-----------------------------------------------------------------------------

\* There are finitely many tokens.
LEMMA UsedFinite ==
    /\ IsFiniteSet(UsedTokens) /\ Cardinality(UsedTokens) \in Nat
    /\ Cardinality(UsedTokens) <= MaxTokens
<1>1. MaxTokens \in Nat
  BY NodeConstants
<1>2. IsFiniteSet(1 .. MaxTokens) /\ Cardinality(1 .. MaxTokens) = MaxTokens
  BY <1>1, FS_Interval
<1>3. UsedTokens \subseteq 1 .. MaxTokens
  BY DEF UsedTokens
<1> QED
  BY <1>2, <1>3, FS_Subset, FS_CardinalityType

\* The same for the next state.
LEMMA UsedFiniteNext ==
    /\ IsFiniteSet(UsedTokens') /\ Cardinality(UsedTokens') \in Nat
    /\ Cardinality(UsedTokens') <= MaxTokens
<1>1. MaxTokens \in Nat
  BY NodeConstants
<1>2. IsFiniteSet(1 .. MaxTokens) /\ Cardinality(1 .. MaxTokens) = MaxTokens
  BY <1>1, FS_Interval
<1>3. UsedTokens' \subseteq 1 .. MaxTokens
  BY DEF UsedTokens
<1> QED
  BY <1>2, <1>3, FS_Subset, FS_CardinalityType

\* A machine that was never installed on has used no token.
LEMMA TokensBegin == Init => BInv
<1> SUFFICES ASSUME Init PROVE BInv
  OBVIOUS
<1>1. gen <= Cardinality(UsedTokens)
  BY UsedFinite DEF Init
<1> QED
  BY <1>1, NodeConstants DEF Init, BInv, TokenTypes, SecretsCost

\* The backend issues a secret for a token that was not used.
LEMMA AcceptedKeepsB ==
    ASSUME BInv, RegisterOk \/ RegisterLost
    PROVE  BInv'
<1>1. Accepted /\ UNCHANGED installer /\ env' = env
  BY DEF RegisterOk, RegisterLost, Accepted
<1>2. env \in 1 .. MaxTokens /\ tok[env] = "fresh"
  BY <1>1, NodeConstants DEF Accepted, BInv, TokenTypes
<1>3. env \notin UsedTokens /\ UsedTokens' = UsedTokens \cup {env}
  BY <1>1, <1>2 DEF Accepted, UsedTokens, BInv, TokenTypes
<1>4. Cardinality(UsedTokens') = Cardinality(UsedTokens) + 1
  BY <1>3, UsedFinite, FS_AddElement
<1>5. gen' = gen + 1
  BY <1>1 DEF Accepted
<1>6. gen' <= Cardinality(UsedTokens') /\ gen' \in 0 .. MaxTokens
  BY <1>4, <1>5, UsedFinite, UsedFiniteNext, NodeConstants DEF BInv, TokenTypes, SecretsCost
<1>7. tok' \in [1 .. MaxTokens -> {"none", "fresh", "used", "expired"}]
  BY <1>1, <1>2 DEF Accepted, BInv, TokenTypes
<1>8. \A t \in 1 .. MaxTokens : t > issued => tok'[t] = "none"
  BY <1>1, <1>2 DEF Accepted, BInv, TokenTypes, SecretsCost
<1>9. main' \in {"save", main}
  BY DEF RegisterOk, RegisterLost
<1> QED
  BY <1>1, <1>6, <1>7, <1>8, <1>9 DEF installer, given, BInv, TokenTypes, SecretsCost

\* Another machine's use of a token, and its expiry.
LEMMA TokenLostKeepsB ==
    ASSUME BInv, TokenLost
    PROVE  BInv'
<1>1. PICK t \in 1 .. issued, state \in {"expired", "used"} :
          tok[t] = "fresh" /\ tok' = [tok EXCEPT ![t] = state]
  BY DEF TokenLost
<1>2. UsedTokens \subseteq UsedTokens'
  BY <1>1 DEF UsedTokens, BInv, TokenTypes
<1>3. Cardinality(UsedTokens) <= Cardinality(UsedTokens')
  BY <1>2, UsedFiniteNext, FS_Subset
<1>4. UNCHANGED <<installer, gen, env, main>>
  BY DEF TokenLost, process
<1>5. gen' <= Cardinality(UsedTokens')
  BY <1>3, <1>4, UsedFinite, UsedFiniteNext DEF BInv, TokenTypes, SecretsCost
<1> QED
  BY <1>1, <1>4, <1>5, NodeConstants DEF installer, given, BInv, TokenTypes, SecretsCost

\* A new run of the script, with a token that was not issued before or with an old one.
LEMMA InstallKeepsB ==
    ASSUME BInv, NEW t \in 1 .. MaxTokens, InstallBegin(t)
    PROVE  BInv'
<1>1. UsedTokens' = UsedTokens
  BY NodeConstants DEF InstallBegin, UsedTokens, BInv, TokenTypes, SecretsCost
<1>2. gen' = gen /\ unit' = 0 /\ env' = 0 /\ main' = "none" /\ mine' = t
  BY DEF InstallBegin, Death
<1>3. gen' <= Cardinality(UsedTokens')
  BY <1>1, <1>2 DEF BInv, SecretsCost
<1>4. /\ tok' \in [1 .. MaxTokens -> {"none", "fresh", "used", "expired"}]
      /\ issued' \in 0 .. MaxTokens /\ installs' \in 0 .. MaxInstalls
      /\ \A u \in 1 .. MaxTokens : u > issued' => tok'[u] = "none"
  BY NodeConstants DEF InstallBegin, BInv, TokenTypes, SecretsCost
<1> QED
  BY <1>2, <1>3, <1>4 DEF BInv, TokenTypes, SecretsCost

\* One step of the node: all other steps leave the tokens alone.
LEMMA TokensKept == BInv /\ [Next]_vars => BInv'
<1> SUFFICES ASSUME BInv, [Next]_vars,
                    ~ (\E t \in 1 .. MaxTokens : InstallBegin(t)), ~ TokenLost,
                    ~ (RegisterOk \/ RegisterLost)
             PROVE  BInv'
  BY InstallKeepsB, TokenLostKeepsB, AcceptedKeepsB
<1>1. UNCHANGED <<given, tok, gen>>
  BY DEF Next, Installer, InstallClean, InstallStart, InstallSeen, InstallSeenLate, InstallFails,
         Agent, Boot, InitLocalMode, RegisterAnswered, RegisterRefused, RegisterRejected,
         RegisterSaves, MainStart, MainExits, OpenTunnel, PollTerminal, handleRevoked,
         RevokedCloses, RevokedClears, RevokedStops, RevokedCleans, RevokedQuits, CreateUser,
         RegenLists, RegenApplies, Tunnels, Delete, Crash, Reboot, Corrupt, vars, installer, cloud
<1>2. unit' \in {0, mine} /\ env' \in {0, mine} /\ (main' = "register" => env' # 0)
  <2> USE DEF BInv, TokenTypes
  <2>1. CASE Installer
    BY <2>1 DEF Installer, InstallClean, InstallStart, InstallSeen, InstallSeenLate, InstallFails,
                process
  <2>2. CASE Boot \/ InitLocalMode \/ RegisterSaves \/ MainStart
    BY <2>2 DEF Boot, InitLocalMode, Enroll, RegisterSaves, MainStart, installer
  <2>3. CASE RegisterAnswered \/ RegisterRejected \/ MainExits \/ Crash
    BY <2>3 DEF RegisterAnswered, RegisterRefused, RegisterRejected, MainExits, Crash, Death,
                installer
  <2>4. CASE \/ OpenTunnel \/ PollTerminal \/ handleRevoked \/ RegenLists \/ RegenApplies
             \/ (\E u \in Users : CreateUser(u)) \/ Delete \/ Reboot \/ Corrupt
             \/ (\E s \in Sessions : Tunnels(ServeStep(s)) \/ Tunnels(PeerLeaves(s)))
             \/ UNCHANGED vars
    BY <2>4 DEF OpenTunnel, PollTerminal, handleRevoked, RevokedCloses, RevokedClears, RevokedStops,
                RevokedCleans, RevokedQuits, CreateUser, RegenLists, RegenApplies, Tunnels, Delete,
                Reboot, Corrupt, vars, installer, process
  <2> QED
    BY <2>1, <2>2, <2>3, <2>4 DEF Next, Agent, RegisterLost
<1>3. UsedTokens' = UsedTokens
  BY <1>1 DEF UsedTokens
<1> QED
  BY <1>1, <1>2, <1>3 DEF given, BInv, TokenTypes, SecretsCost

\* The installer.
LEMMA InstallerKeepsC ==
    ASSUME TokenTypes, TokenTypes', CInv, Installer
    PROVE  CInv'
<1> USE NodeConstants DEF TokenTypes, CInv, Bought, Half, Usable, RegistrationTypes, Positions,
        TokensBuySecrets, CredentialsCurrent, WayBack, CleanedIsFinal, RefusedOnlyIfSpent
<1>1. CASE \E t \in 1 .. MaxTokens : InstallBegin(t)
  BY <1>1 DEF InstallBegin, Death
<1>2. CASE InstallClean
  BY <1>2 DEF InstallClean, given, cloud, process, history
<1>3. CASE InstallStart
  BY <1>3 DEF InstallStart, given, cloud, history
<1>4. CASE InstallSeen
  BY <1>4 DEF InstallSeen, given, cloud, process, history
<1>5. CASE InstallSeenLate
  BY <1>5 DEF InstallSeenLate, given, cloud, process, history
<1>6. CASE InstallFails
  BY <1>6 DEF InstallFails, Fault, given, cloud, process, history
<1> QED
  BY <1>1, <1>2, <1>3, <1>4, <1>5, <1>6 DEF Installer

\* The main goroutine.
LEMMA MainKeepsC ==
    ASSUME TokenTypes, TokenTypes', CInv,
           \/ Boot \/ InitLocalMode \/ RegisterAnswered \/ RegisterLost \/ RegisterRejected
           \/ RegisterSaves \/ MainStart \/ MainExits
    PROVE  CInv'
<1> USE NodeConstants DEF TokenTypes, CInv, Bought, Half, Usable, RegistrationTypes, Positions,
        TokensBuySecrets, CredentialsCurrent, WayBack, CleanedIsFinal, RefusedOnlyIfSpent
<1>1. CASE Boot
  BY <1>1 DEF Boot, installer, given, cloud, history
<1>2. CASE InitLocalMode
  BY <1>2 DEF InitLocalMode, Enroll, installer, given, cloud
<1>3. CASE RegisterOk
  BY <1>3 DEF RegisterOk, Accepted, installer, given
<1>4. CASE RegisterLost
  BY <1>4 DEF RegisterLost, Accepted, Fault, installer, given
<1>5. ASSUME NEW code, RegisterRefused(code), code = "used" => tok[env] = "used"
      PROVE  CInv'
  BY <1>5 DEF RegisterRefused, Death, installer, given, cloud
<1>6. CASE RegisterSaves
  BY <1>6 DEF RegisterSaves, SaveNodeFile, Fault, installer, given, cloud
<1>7. CASE MainStart
  BY <1>7 DEF MainStart, installer, given, cloud, history
<1>8. CASE MainExits
  BY <1>8 DEF MainExits, Death, installer, given, cloud, history
<1> QED
  BY <1>1, <1>2, <1>3, <1>4, <1>5, <1>6, <1>7, <1>8 DEF RegisterAnswered, RegisterRejected

\* The Runner.
LEMMA RunnerKeepsC ==
    ASSUME TokenTypes, TokenTypes', CInv, PollTerminal \/ handleRevoked
    PROVE  CInv'
<1> USE NodeConstants DEF TokenTypes, CInv, Bought, Half, Usable, RegistrationTypes, Positions,
        TokensBuySecrets, CredentialsCurrent, WayBack, CleanedIsFinal, RefusedOnlyIfSpent
<1>1. CASE PollTerminal
  BY <1>1 DEF PollTerminal, installer, given, cloud
<1>2. CASE RevokedCloses
  BY <1>2 DEF RevokedCloses, installer, given, cloud, history
<1>3. CASE RevokedClears
  BY <1>3 DEF RevokedClears, installer, given, cloud
<1>4. CASE RevokedStops
  BY <1>4 DEF RevokedStops, installer, given, cloud, history
<1>5. CASE RevokedCleans
  BY <1>5 DEF RevokedCleans, installer, given, cloud
<1>6. CASE RevokedQuits
  BY <1>6 DEF RevokedQuits, installer, given, cloud, history
<1> QED
  BY <1>1, <1>2, <1>3, <1>4, <1>5, <1>6 DEF handleRevoked

\* Everything else.
LEMMA RestKeepsC ==
    ASSUME TokenTypes, TokenTypes', CInv,
           \/ OpenTunnel \/ (\E u \in Users : CreateUser(u)) \/ RegenLists \/ RegenApplies
           \/ (\E s \in Sessions : Tunnels(ServeStep(s)) \/ Tunnels(PeerLeaves(s)))
           \/ TokenLost \/ Delete \/ Crash \/ Reboot \/ Corrupt \/ UNCHANGED vars
    PROVE  CInv'
<1> USE NodeConstants DEF TokenTypes, CInv, Bought, Half, Usable, RegistrationTypes, Positions,
        TokensBuySecrets, CredentialsCurrent, WayBack, CleanedIsFinal, RefusedOnlyIfSpent
<1>1. CASE \/ OpenTunnel \/ (\E u \in Users : CreateUser(u)) \/ RegenLists \/ RegenApplies
           \/ (\E s \in Sessions : Tunnels(ServeStep(s)) \/ Tunnels(PeerLeaves(s)))
           \/ UNCHANGED vars
  <2>1. UNCHANGED <<installer, tok, gen, node, process, cleaned, orphan, corrupted, refused>>
    BY <1>1 DEF OpenTunnel, Tunnels, CreateUser, RegenLists, RegenApplies, cloud, history, vars
  <2> QED
    BY <2>1 DEF installer, given, process
<1>2. CASE TokenLost
  BY <1>2 DEF TokenLost, installer, given, process, history
<1>3. CASE Delete
  BY <1>3 DEF Delete, installer, given, process, history
<1>4. CASE Crash
  BY <1>4 DEF Crash, Death, installer, given, cloud
<1>5. CASE Reboot
  BY <1>5 DEF Reboot, installer, given, cloud, history
<1>6. CASE Corrupt
  BY <1>6 DEF Corrupt, installer, given, cloud, process
<1> QED
  BY <1>1, <1>2, <1>3, <1>4, <1>5, <1>6

\* A machine that was never installed on.
LEMMA CredentialsBegin == Init => CInv
BY NodeConstants DEF Init, CInv, Bought, Half, Usable, RegistrationTypes, Positions,
   TokensBuySecrets, CredentialsCurrent, WayBack, CleanedIsFinal, RefusedOnlyIfSpent

\* One step of the node.
LEMMA CredentialsKept == TokenTypes /\ TokenTypes' /\ CInv /\ [Next]_vars => CInv'
BY InstallerKeepsC, MainKeepsC, RunnerKeepsC, RestKeepsC DEF Next, Agent

\* The installer's success is its own token's, the secret in node.json is the last
\* one issued, and an agent without credentials has a token, for any number of
\* installations, deaths, lost answers and failed writes.
THEOREM NobodyStranded == Spec => []NeverStranded
<1>1. CInv => NeverStranded
  BY DEF CInv, NeverStranded, Bought, CredentialsCurrent, WayBack
<1> QED
  BY <1>1, TokensBegin, TokensKept, CredentialsBegin, CredentialsKept, PTL DEF Spec, BInv

\* A used token ends the agent only if what it bought is lost.
THEOREM TokenSpentOnce == Spec => []RefusedOnlyIfSpent
<1>1. CInv => RefusedOnlyIfSpent
  BY DEF CInv
<1> QED
  BY <1>1, TokensBegin, TokensKept, CredentialsBegin, CredentialsKept, PTL DEF Spec, BInv

-----------------------------------------------------------------------------
(* The users of a deleted node.                                            *)

\* The installer ends the old agent and leaves its users on disk.
LEMMA InstallerKeepsU ==
    ASSUME CInv, UInv, Installer
    PROVE  UInv'
<1> USE DEF UInv, UsersAreBorn, ClearedStore, CleanStart, NothingLeft, Gone
<1>1. CASE \E t \in 1 .. MaxTokens : InstallBegin(t)
  BY <1>1 DEF InstallBegin, Death
<1>2. CASE InstallStart
  BY <1>2 DEF InstallStart, plane, history, CInv, Positions
<1>3. CASE InstallClean \/ InstallSeen \/ InstallSeenLate \/ InstallFails
  BY <1>3 DEF InstallClean, InstallSeen, InstallSeenLate, InstallFails, process, plane, history
<1> QED
  BY <1>1, <1>2, <1>3 DEF Installer

\* The main goroutine: a restart loads, and serves, what Clear has left on disk.
LEMMA MainKeepsU ==
    ASSUME CInv, UInv,
           \/ Boot \/ InitLocalMode \/ RegisterAnswered \/ RegisterLost \/ RegisterRejected
           \/ RegisterSaves \/ MainStart \/ MainExits
    PROVE  UInv'
<1> USE DEF UInv, UsersAreBorn, ClearedStore, CleanStart, NothingLeft, Gone
<1>1. CASE Boot
  BY <1>1 DEF Boot, history
<1>2. CASE InitLocalMode
  BY <1>2 DEF InitLocalMode, Apply, Fault, Enroll, CInv, Positions, CleanedIsFinal, Usable
<1>3. CASE RegisterOk \/ RegisterLost
  BY <1>3 DEF RegisterOk, RegisterLost, Accepted, plane, CInv, CleanedIsFinal
<1>4. ASSUME NEW code, RegisterRefused(code)
      PROVE  UInv'
  BY <1>4 DEF RegisterRefused, Death, CInv, CleanedIsFinal
<1>5. CASE RegisterSaves
  BY <1>5 DEF RegisterSaves, SaveNodeFile, plane, CInv, CleanedIsFinal
<1>6. CASE MainStart
  BY <1>6 DEF MainStart, history, CInv, Positions
<1>7. CASE MainExits
  BY <1>7 DEF MainExits, Death, history
<1> QED
  BY <1>1, <1>2, <1>3, <1>4, <1>5, <1>6, <1>7 DEF RegisterAnswered, RegisterRejected

\* The Runner: the Store is cleared before the credentials go.
LEMMA RunnerKeepsU ==
    ASSUME CInv, UInv, PollTerminal \/ handleRevoked
    PROVE  UInv'
<1> USE DEF UInv, UsersAreBorn, ClearedStore, CleanStart, NothingLeft, Gone
<1>1. CASE PollTerminal
  BY <1>1 DEF PollTerminal, plane, CInv, CleanedIsFinal
<1>2. CASE RevokedCloses
  BY <1>2 DEF RevokedCloses, plane, history
<1>3. CASE RevokedClears
  BY <1>3 DEF RevokedClears, SaveFails, CInv, Positions
<1>4. CASE RevokedStops
  BY <1>4 DEF RevokedStops, history
<1>5. CASE RevokedCleans \/ RevokedQuits
  BY <1>5 DEF RevokedCleans, RevokedQuits, plane, history
<1> QED
  BY <1>1, <1>2, <1>3, <1>4, <1>5 DEF handleRevoked

\* Users created later were not there when the node was deleted.
LEMMA RestKeepsU ==
    ASSUME CInv, UInv,
           \/ OpenTunnel \/ (\E u \in Users : CreateUser(u)) \/ RegenLists \/ RegenApplies
           \/ (\E s \in Sessions : Tunnels(ServeStep(s)) \/ Tunnels(PeerLeaves(s)))
           \/ TokenLost \/ Delete \/ Crash \/ Reboot \/ Corrupt \/ UNCHANGED vars
    PROVE  UInv'
<1> USE DEF UInv, UsersAreBorn, ClearedStore, CleanStart, NothingLeft, Gone
<1>1. CASE \/ OpenTunnel \/ TokenLost \/ Delete \/ Corrupt \/ UNCHANGED vars
           \/ (\E s \in Sessions : Tunnels(ServeStep(s)) \/ Tunnels(PeerLeaves(s)))
  <2>1. UNCHANGED <<process, plane, born, doomed, cleaned, damaged>>
    BY <1>1 DEF OpenTunnel, Tunnels, TokenLost, Delete, Corrupt, vars, history
  <2> QED
    BY <2>1 DEF process, plane
<1>2. ASSUME NEW u \in Users, CreateUser(u)
      PROVE  UInv'
  BY <1>2 DEF CreateUser, SaveFails, process
<1>3. CASE RegenLists
  BY <1>3 DEF RegenLists, process, history
<1>4. CASE RegenApplies
  BY <1>4 DEF RegenApplies, Apply, Fault, process
<1>5. CASE Crash
  BY <1>5 DEF Crash, Death, CInv, CleanedIsFinal
<1>6. CASE Reboot
  BY <1>6 DEF Reboot, plane, history
<1> QED
  BY <1>1, <1>2, <1>3, <1>4, <1>5, <1>6

\* It has no users.
LEMMA UsersBegin == Init => UInv
BY DEF Init, UInv, UsersAreBorn, ClearedStore, CleanStart, NothingLeft, Gone

\* One step of the node.
LEMMA UsersKept == CInv /\ UInv /\ [Next]_vars => UInv'
BY InstallerKeepsU, MainKeepsU, RunnerKeepsU, RestKeepsU DEF Next, Agent

\* The users of a deleted node are served by no later life of the agent.
THEOREM DeletedServesNobody == Spec => []DeletedNodeServesNobody
<1>1. CInv /\ UInv => DeletedNodeServesNobody
  BY DEF CInv, UInv, CleanedIsFinal, ClearedStore, CleanStart, Gone, DeletedNodeServesNobody,
         Handling
<1> QED
  BY <1>1, TokensBegin, TokensKept, CredentialsBegin, CredentialsKept, UsersBegin, UsersKept, PTL
  DEF Spec, BInv

-----------------------------------------------------------------------------
(* Types.                                                                  *)

\* What TInv, BInv and CInv leave out of TypeOK, in three parts.
ProcessTypes ==
    /\ inst \in {"idle", "clean", "start", "wait", "ok", "failed"}
    /\ backend \in {"none", "active", "deleted"}
    /\ proc \in {"absent", "up", "down", "stopped"}
    /\ main \in {"none", "init", "register", "save", "start", "loop"}
    /\ run \in {"none", "poll", "close", "clear", "stop", "clean", "quit", "done"}
    /\ secret \in 0 .. MaxTokens /\ faults \in 0 .. MaxFaults
    /\ refused \in {"no", "used", "expired", "rejected"}

PlaneTypes ==
    /\ dialing \subseteq Sessions /\ silent \subseteq Sessions /\ cancelled \subseteq Sessions
    /\ mem \subseteq Users /\ disk \subseteq Users /\ conf \subseteq Users
    /\ served \subseteq Users /\ waiting \in Nat /\ regen \subseteq SUBSET Users
    /\ born \subseteq Users /\ doomed \subseteq Users

GhostTypes == {cleaned, orphan, corrupted, damaged} \subseteq BOOLEAN

\* One step and the positions of the processes.
LEMMA ProcessTypesKept == TokenTypes' /\ ProcessTypes /\ [Next]_vars => ProcessTypes'
<1> SUFFICES ASSUME TokenTypes', ProcessTypes, [Next]_vars PROVE ProcessTypes'
  OBVIOUS
<1> USE NodeConstants DEF ProcessTypes
<1>1. faults' \in 0 .. MaxFaults
  <2>1. faults' = faults \/ Fault
    BY DEF Next, Installer, InstallBegin, InstallClean, InstallStart, InstallSeen, InstallSeenLate,
           InstallFails, Agent, Boot, InitLocalMode, Apply, RegisterAnswered, RegisterOk,
           RegisterRefused, RegisterLost, RegisterRejected, RegisterSaves, SaveNodeFile, MainStart,
           MainExits, OpenTunnel, PollTerminal, handleRevoked, RevokedCloses, RevokedClears,
           SaveFails, RevokedStops, RevokedCleans, RevokedQuits, CreateUser, RegenLists,
           RegenApplies, Tunnels, TokenLost, Delete, Crash, Reboot, Corrupt, vars
  <2> QED
    BY <2>1 DEF Fault
<1>2. CASE Installer
  BY <1>1, <1>2 DEF Installer, InstallBegin, InstallClean, InstallStart, InstallSeen,
                    InstallSeenLate, InstallFails, Death, given, cloud, process, history
<1>3. CASE Boot \/ InitLocalMode \/ MainStart \/ MainExits
  BY <1>1, <1>3 DEF Boot, InitLocalMode, Enroll, MainStart, MainExits, Death, installer, given,
                    cloud, history
<1>4. CASE RegisterOk \/ RegisterLost
  <2>1. gen + 1 \in 0 .. MaxTokens
    BY <1>4 DEF RegisterOk, RegisterLost, Accepted, TokenTypes
  <2> QED
    BY <1>1, <1>4, <2>1 DEF RegisterOk, RegisterLost, Accepted, installer, given
<1>5. ASSUME NEW code, RegisterRefused(code)
      PROVE  ProcessTypes'
  BY <1>1, <1>5 DEF RegisterRefused, IsFatalRegister, Death, installer, given, cloud
<1>6. CASE RegisterSaves
  BY <1>1, <1>6 DEF RegisterSaves, SaveNodeFile, installer, given, cloud
<1>7. CASE PollTerminal \/ handleRevoked
  BY <1>1, <1>7 DEF PollTerminal, handleRevoked, RevokedCloses, RevokedClears, RevokedStops,
                    RevokedCleans, RevokedQuits, installer, given, cloud, history
<1>8. CASE \/ OpenTunnel \/ (\E u \in Users : CreateUser(u)) \/ RegenLists \/ RegenApplies
           \/ (\E s \in Sessions : Tunnels(ServeStep(s)) \/ Tunnels(PeerLeaves(s)))
           \/ UNCHANGED vars
  <2>1. UNCHANGED <<installer, cloud, process, refused>>
    BY <1>8 DEF OpenTunnel, Tunnels, CreateUser, RegenLists, RegenApplies, history, vars
  <2> QED
    BY <1>1, <2>1 DEF installer, given, cloud, process
<1>9. CASE TokenLost \/ Delete \/ Crash \/ Reboot \/ Corrupt
  BY <1>1, <1>9 DEF TokenLost, Delete, Crash, Reboot, Corrupt, Death, installer, given, cloud,
                    process, history
<1> QED
  BY <1>2, <1>3, <1>4, <1>5, <1>6, <1>7, <1>8, <1>9
  DEF Next, Agent, RegisterAnswered, RegisterRejected

\* One step and the sets of users and sessions.
LEMMA PlaneTypesKept == TInv /\ PlaneTypes /\ [Next]_vars => PlaneTypes'
<1> SUFFICES ASSUME TInv, PlaneTypes, [Next]_vars PROVE PlaneTypes'
  OBVIOUS
<1> USE DEF PlaneTypes
<1>1. ASSUME Death, conf' \subseteq Users, UNCHANGED <<born, doomed>>
      PROVE  PlaneTypes'
  BY <1>1 DEF Death, TunnelsDie
<1>2. ASSUME NEW U \in SUBSET Users, Apply(U)
      PROVE  conf' \subseteq Users /\ served' \subseteq Users
  BY <1>2 DEF Apply
<1>3. CASE Installer
  BY <1>1, <1>3 DEF Installer, InstallBegin, InstallClean, InstallStart, InstallSeen,
                    InstallSeenLate, InstallFails, plane, tunnels, history
<1>4. CASE Boot \/ RegisterSaves \/ MainStart
  BY <1>4 DEF Boot, RegisterSaves, MainStart, plane, tunnels, history
<1>5. CASE InitLocalMode
  BY <1>2, <1>5 DEF InitLocalMode, tunnels
<1>6. CASE RegisterAnswered \/ RegisterLost \/ RegisterRejected
  BY <1>1, <1>6 DEF RegisterAnswered, RegisterOk, RegisterLost, Accepted, RegisterRejected,
                    RegisterRefused, plane, tunnels
<1>7. CASE MainExits \/ Crash
  BY <1>1, <1>7 DEF MainExits, Crash, history
<1>8. CASE OpenTunnel \/ (\E s \in Sessions : Tunnels(ServeStep(s)) \/ Tunnels(PeerLeaves(s)))
  BY <1>8 DEF OpenTunnel, Tunnels, OpenBegin, OpenFails, OpenOk, ServeStep, ServeEnds, ServeDeletes,
              WatcherCloses, PeerLeaves, plane, history
<1>9. CASE PollTerminal \/ handleRevoked
  BY <1>9 DEF PollTerminal, handleRevoked, RevokedCloses, CloseAll, TInv, TunnelTypes,
              RevokedClears, SaveFails, RevokedStops, RevokedCleans, RevokedQuits, plane, tunnels,
              history
<1>10. ASSUME NEW u \in Users, CreateUser(u)
       PROVE  PlaneTypes'
  BY <1>10 DEF CreateUser, SaveFails, tunnels
<1>11. CASE RegenLists
  BY <1>11 DEF RegenLists, tunnels, history
<1>12. CASE RegenApplies
  BY <1>2, <1>12 DEF RegenApplies, tunnels
<1>13. CASE TokenLost \/ Delete \/ Reboot \/ Corrupt \/ UNCHANGED vars
  BY <1>13 DEF TokenLost, Delete, Reboot, Corrupt, vars, plane, tunnels, history
<1> QED
  BY <1>3, <1>4, <1>5, <1>6, <1>7, <1>8, <1>9, <1>10, <1>11, <1>12, <1>13 DEF Next, Agent

\* One step and the flags of the history.
LEMMA GhostTypesKept == GhostTypes /\ [Next]_vars => GhostTypes'
<1> SUFFICES ASSUME GhostTypes, [Next]_vars PROVE GhostTypes'
  OBVIOUS
<1> USE DEF GhostTypes
<1>1. CASE Installer
  BY <1>1, Zenon DEF Installer, InstallBegin, InstallClean, InstallStart, InstallSeen,
                     InstallSeenLate, InstallFails, history
<1>2. CASE \/ Boot \/ InitLocalMode \/ RegisterAnswered \/ RegisterLost \/ RegisterRejected
           \/ RegisterSaves \/ MainStart \/ MainExits
  BY <1>2, Zenon DEF Boot, InitLocalMode, Apply, RegisterAnswered, RegisterOk, Accepted,
                     RegisterRefused, RegisterLost, RegisterRejected, RegisterSaves, SaveNodeFile,
                     MainStart, MainExits, history
<1>3. CASE \/ OpenTunnel \/ PollTerminal \/ handleRevoked
           \/ (\E u \in Users : CreateUser(u)) \/ RegenLists \/ RegenApplies
  BY <1>3, Zenon DEF OpenTunnel, PollTerminal, handleRevoked, RevokedCloses, RevokedClears,
                     SaveFails, RevokedStops, RevokedCleans, RevokedQuits, CreateUser, RegenLists,
                     RegenApplies, Apply, Tunnels, history
<1>4. CASE \/ (\E s \in Sessions : Tunnels(ServeStep(s)) \/ Tunnels(PeerLeaves(s)))
           \/ TokenLost \/ Delete \/ Crash \/ Reboot \/ Corrupt \/ UNCHANGED vars
  BY <1>4 DEF Tunnels, TokenLost, Delete, Crash, Reboot, Corrupt, vars, history
<1> QED
  BY <1>1, <1>2, <1>3, <1>4 DEF Next, Agent

\* TypeOK: every reachable state of the node is well typed.  That the number of
\* secrets stays within the number of tokens needs the count of used tokens (BInv),
\* and that node.json holds none but an issued secret the argument about the
\* credentials (CInv).
THEOREM TypeCorrect == Spec => []TypeOK
<1>1. Init => ProcessTypes /\ PlaneTypes /\ GhostTypes
  <2>1. Init => ProcessTypes /\ PlaneTypes
    BY NodeConstants DEF Init, TunnelInit, ProcessTypes, PlaneTypes
  <2>2. Init => GhostTypes
    BY Zenon DEF Init, GhostTypes
  <2> QED
    BY <2>1, <2>2
<1>2. TInv /\ BInv /\ CInv /\ PlaneTypes => /\ TunnelTypeOK
                                           /\ unit \in 0 .. MaxTokens
                                           /\ env \in 0 .. MaxTokens
                                           /\ before \in 0 .. MaxTokens
  BY NodeConstants DEF TInv, TunnelTypes, BInv, TokenTypes, CInv, RegistrationTypes, PlaneTypes,
                       TunnelTypeOK
<1>3. TInv /\ BInv /\ CInv /\ ProcessTypes /\ PlaneTypes /\ GhostTypes => TypeOK
  BY <1>2, Zenon DEF BInv, TokenTypes, SecretsCost, CInv, RegistrationTypes, ProcessTypes,
                     PlaneTypes, GhostTypes, TypeOK
<1>4. BInv => TokenTypes
  BY DEF BInv
<1> QED
  BY <1>1, <1>3, <1>4, TunnelsBegin, TunnelsKept, TokensBegin, TokensKept, CredentialsBegin,
     CredentialsKept, ProcessTypesKept, PlaneTypesKept, GhostTypesKept, PTL DEF Spec

=============================================================================
