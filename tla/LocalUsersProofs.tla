-------------------------- MODULE LocalUsersProofs --------------------------
(***************************************************************************)
(* Proofs about LocalUsers, for any users, limits, expiry times, traffic,  *)
(* changes and faults.                                                     *)
(***************************************************************************)
EXTENDS LocalUsers, TLAPS

-----------------------------------------------------------------------------
(* Types, without the bounds of the model.                                 *)

Readings == UNION {[S -> Nat] : S \in SUBSET Users}

Types ==
    /\ users \in Table /\ disk \in Table \cup {Torn}
    /\ last \in [Users -> Nat] /\ counter \in [Users -> Nat] /\ real \in [Users -> Nat]
    /\ reading \in [Thread -> Readings] /\ due \in [Thread -> [Users -> Nat]]
    /\ waiting \in Nat /\ crossed \in BOOLEAN /\ now \in Nat
    /\ snapshot \subseteq Users /\ served \subseteq Users /\ file \in (SUBSET Users) \cup {Torn}
    /\ promised \in [Users -> {"nothing", "present", "absent"}]

\* A reading is a function on some of the users.
LEMMA ReadingIn ==
    ASSUME NEW S \in SUBSET Users, NEW f \in [S -> Nat] PROVE f \in Readings
  BY DEF Readings

LEMMA EmptyReading == Empty \in Readings
  <1>1. Empty \in [{} -> Nat]  BY DEF Empty
  <1> QED  BY <1>1, ReadingIn

\* Conversely, every user of a reading has a number in it.
LEMMA ReadingOut ==
    ASSUME NEW f \in Readings
    PROVE  DOMAIN f \subseteq Users /\ \A u \in DOMAIN f : f[u] \in Nat
  BY DEF Readings

\* delta never gives a negative number.
LEMMA DeltaNat ==
    ASSUME NEW cur \in Nat, NEW prev \in Nat PROVE delta(cur, prev) \in Nat
  BY DEF delta

\* What the constants are, as the proofs use it.
LEMMA Constants ==
    /\ Limits \subseteq Nat /\ Expiries \subseteq 0 .. NoExpiry /\ MaxTime \in Nat
    /\ NoExpiry \in Nat
    /\ NoUser \notin User /\ Torn \notin Table /\ Torn \notin SUBSET Users
  BY UsersConstants DEF NoExpiry

\* A user of the Store has the fields of one.
LEMMA UserIs ==
    ASSUME Types, NEW u \in Users, users[u] # NoUser
    PROVE  /\ users[u] \in User
           /\ users[u].enabled \in BOOLEAN /\ users[u].limit \in Nat
           /\ users[u].used \in Nat /\ users[u].expire \in Nat
  <1>1. users[u] \in User  BY DEF Types, Table
  <1>2. users[u].expire \in 0 .. NoExpiry  BY <1>1 DEF User
  <1>3. users[u].expire \in Nat  BY <1>2, Constants
  <1> QED  BY <1>1, <1>3 DEF User

LEMMA InitTypes == Init => Types
  <1> SUFFICES ASSUME Init PROVE Types  OBVIOUS
  <1>1. users \in Table  BY DEF Init, Table
  <1>2. Zero \in [Users -> Nat]  BY DEF Zero
  <1>3. Empty \in Readings  BY EmptyReading
  <1> QED  BY <1>1, <1>2, <1>3 DEF Init, Types

\* The table with another entry is still one.
LEMMA TableExcept ==
    ASSUME NEW t \in Table, NEW u \in Users, NEW v \in User \cup {NoUser}
    PROVE  [t EXCEPT ![u] = v] \in Table
  BY DEF Table

\* A save writes the table or leaves what was there, or a torn file.
LEMMA TypesSave ==
    ASSUME Types, NEW t \in Table, SaveOk(t) \/ SaveFails PROVE disk' \in Table \cup {Torn}
  BY DEF Types, SaveOk, SaveFails

LEMMA TypesCreate ==
    ASSUME Types, NEW u \in Users, NEW limit \in Limits, NEW expire \in Expiries,
           CreateUser(u, limit, expire)
    PROVE  Types'
  <1> DEFINE rec == [enabled |-> TRUE, limit |-> limit, used |-> 0, expire |-> expire]
             new == [users EXCEPT ![u] = rec]
  <1>1. rec \in User  BY Constants DEF User
  <1>2. users \in Table /\ new \in Table  BY <1>1, TableExcept DEF Types
  <1>3. users' \in Table /\ disk' \in Table \cup {Torn}
        /\ promised' \in [Users -> {"nothing", "present", "absent"}] /\ waiting' \in Nat
    <2> HIDE DEF rec
    <2>1. \/ SaveOk(new) /\ users' = new /\ onChange
             /\ promised' = [promised EXCEPT ![u] = "present"]
          \/ SaveFails /\ UNCHANGED <<users, waiting, promised>>
      BY DEF CreateUser, rec
    <2> HIDE DEF new
    <2> QED  BY <1>2, <2>1, TypesSave DEF Types, onChange
  <1> QED  BY <1>3 DEF Types, CreateUser, acct, plane

LEMMA TypesUpdate ==
    ASSUME Types, NEW u \in Users, NEW enabled \in BOOLEAN, NEW limit \in Limits,
           NEW expire \in Expiries, UpdateUser(u, enabled, limit, expire)
    PROVE  Types'
  <1> DEFINE rec == [users[u] EXCEPT !.enabled = enabled, !.limit = limit, !.expire = expire]
  <1>1. users[u] # NoUser /\ users \in Table  BY DEF UpdateUser, Types
  <1>2. users[u] \in User  BY <1>1, UserIs
  <1>3. rec \in User  BY <1>2, Constants DEF User
  <1>4. users' = [users EXCEPT ![u] = rec]  BY <1>1, <1>2 DEF UpdateUser, Table, User
  <1>5. users' \in Table  BY <1>1, <1>3, <1>4, TableExcept
  <1>6. disk' \in Table \cup {Torn}  BY <1>5, TypesSave DEF UpdateUser
  <1>7. waiting' \in Nat  BY DEF Types, UpdateUser, onChange
  <1> QED  BY <1>5, <1>6, <1>7 DEF Types, UpdateUser, acct, plane

LEMMA TypesDelete ==
    ASSUME Types, NEW u \in Users, DeleteUser(u) PROVE Types'
  <1>1. users' \in Table  BY TableExcept DEF DeleteUser, Types
  <1>2. disk' \in Table \cup {Torn}  BY <1>1, TypesSave DEF DeleteUser
  <1>3. waiting' \in Nat  BY DEF Types, DeleteUser, onChange
  <1>4. promised' \in [Users -> {"nothing", "present", "absent"}]  BY DEF Types, DeleteUser
  <1> QED  BY <1>1, <1>2, <1>3, <1>4 DEF Types, DeleteUser, acct, plane

\* The three steps of accountLocalTraffic, whichever thread takes them.
LEMMA TypesCollect ==
    ASSUME Types, NEW t \in Thread, Collect(t) PROVE reading' \in [Thread -> Readings]
  <1>1. [u \in served |-> counter[u]] \in [served -> Nat]  BY DEF Types
  <1>2. [u \in served |-> counter[u]] \in Readings  BY <1>1, ReadingIn DEF Types
  <1> QED  BY <1>2 DEF Types, Collect

LEMMA TypesDeltas ==
    ASSUME Types, NEW t \in Thread, Deltas(t)
    PROVE  /\ reading' \in [Thread -> Readings] /\ due' \in [Thread -> [Users -> Nat]]
           /\ last' \in [Users -> Nat]
  <1> DEFINE d == [u \in Users |-> IF u \in DOMAIN reading[t]
                                   THEN delta(reading[t][u], last[u]) ELSE 0]
  <1>1. Empty \in Readings  BY EmptyReading
  <1>2. \A u \in DOMAIN reading[t] : reading[t][u] \in Nat  BY ReadingOut DEF Types
  <1>3. d \in [Users -> Nat]  BY <1>2, DeltaNat DEF Types
  <1>4. due' = [due EXCEPT ![t] = d]  BY DEF Deltas
  <1>5. due' \in [Thread -> [Users -> Nat]]
    <2> HIDE DEF d
    <2> QED  BY <1>3, <1>4 DEF Types
  <1>6. reading' \in [Thread -> Readings]  BY <1>1 DEF Types, Deltas
  <1>7. last' \in [Users -> Nat]  BY <1>2 DEF Types, Deltas
  <1> QED  BY <1>5, <1>6, <1>7

LEMMA TypesAdd ==
    ASSUME Types, NEW t \in Thread, NEW u \in Users, AddTraffic(t, u)
    PROVE  /\ users' \in Table /\ disk' \in Table \cup {Torn} /\ crossed' \in BOOLEAN
           /\ due' \in [Thread -> [Users -> Nat]]
  <1>1. due' \in [Thread -> [Users -> Nat]]  BY DEF Types, AddTraffic
  <1>2. CASE users[u] = NoUser  BY <1>1, <1>2 DEF Types, AddTraffic
  <1>3. CASE users[u] # NoUser
    <2> DEFINE rec == [users[u] EXCEPT !.used = users[u].used + due[t][u]]
    <2>1. users[u] \in User /\ users[u].used \in Nat  BY <1>3, UserIs
    <2>2. rec \in User
      <3>1. users[u].used + due[t][u] \in Nat  BY <2>1 DEF Types
      <3> QED  BY <2>1, <3>1 DEF User
    <2>3. users' = [users EXCEPT ![u] = rec]  BY <1>3 DEF AddTraffic, Types, Table
    <2>4. users' \in Table
      <3> HIDE DEF rec
      <3> QED  BY <2>2, <2>3, TableExcept DEF Types
    <2>5. disk' \in Table \cup {Torn}  BY <1>3, <2>4, TypesSave DEF AddTraffic
    <2>6. crossed' \in BOOLEAN  BY <1>3 DEF AddTraffic
    <2> QED  BY <1>1, <2>4, <2>5, <2>6
  <1> QED  BY <1>2, <1>3

LEMMA TypesTick == ASSUME Types, Tick PROVE Types'
  <1>1. CASE TickCollect
    BY <1>1, TypesCollect DEF Types, TickCollect, Collect, Thread, store, plane, bounds
  <1>2. CASE TickDeltas
    BY <1>2, TypesDeltas DEF Types, TickDeltas, Deltas, Thread, store, plane, bounds
  <1>3. CASE \E u \in Users : TickAdd(u)
    <2>1. PICK u \in Users : TickAdd(u)  BY <1>3
    <2>2. AddTraffic("tick", u)  BY <2>1 DEF TickAdd
    <2>3. /\ users' \in Table /\ disk' \in Table \cup {Torn} /\ crossed' \in BOOLEAN
          /\ due' \in [Thread -> [Users -> Nat]]
      BY <2>2, TypesAdd DEF Thread
    <2>4. UNCHANGED <<promised, last, reading>>  BY <2>2 DEF AddTraffic
    <2> QED  BY <2>1, <2>3, <2>4 DEF Types, TickAdd, plane
  <1>4. CASE TickEnd
    <2>1. waiting' \in Nat  BY <1>4 DEF Types, TickEnd
    <2>2. crossed' \in BOOLEAN  BY <1>4 DEF TickEnd
    <2> QED  BY <1>4, <2>1, <2>2 DEF Types, TickEnd, store, plane, bounds
  <1> QED  BY <1>1, <1>2, <1>3, <1>4 DEF Tick

LEMMA TypesLaunch ==
    ASSUME Types, Launch PROVE served' \subseteq Users /\ counter' \in [Users -> Nat]
  <1>1. Zero \in [Users -> Nat]  BY DEF Zero
  <1>2. CASE file = Torn  BY <1>1, <1>2 DEF Types, Launch
  <1>3. CASE file # Torn
    <2>1. file \in SUBSET Users  BY <1>3 DEF Types
    <2> QED  BY <1>1, <1>3, <2>1 DEF Launch
  <1> QED  BY <1>2, <1>3

LEMMA TypesRegenerate == ASSUME Types, Regenerate PROVE Types'
  <1> USE DEF store, acct, plane, bounds
  <1>z. Zero \in [Users -> Nat]  BY DEF Zero
  <1>1. CASE RegenLock  BY <1>1 DEF Types, RegenLock
  <1>2. CASE RegenCollect
    BY <1>2, TypesCollect DEF Types, RegenCollect, Collect, Thread
  <1>3. CASE RegenDeltas
    BY <1>3, TypesDeltas DEF Types, RegenDeltas, Deltas, Thread
  <1>4. CASE \E u \in Users : RegenAdd(u)
    <2>1. PICK u \in Users : RegenAdd(u)  BY <1>4
    <2>2. AddTraffic("regen", u)  BY <2>1 DEF RegenAdd
    <2>3. /\ users' \in Table /\ disk' \in Table \cup {Torn} /\ crossed' \in BOOLEAN
          /\ due' \in [Thread -> [Users -> Nat]]
      BY <2>2, TypesAdd DEF Thread
    <2>4. UNCHANGED <<promised, last, reading>>  BY <2>2 DEF AddTraffic
    <2> QED  BY <2>1, <2>3, <2>4 DEF Types, RegenAdd
  <1>5. CASE RegenAdded  BY <1>5 DEF Types, RegenAdded
  <1>6. CASE RegenList  BY <1>6 DEF Types, RegenList
  <1>7. CASE RegenWrite
    <2>1. file' \in (SUBSET Users) \cup {Torn}  BY <1>7 DEF Types, RegenWrite
    <2> QED  BY <1>7, <2>1 DEF Types, RegenWrite
  <1>8. CASE RegenApply  BY <1>8, <1>z DEF Types, RegenApply
  <1>9. CASE RegenStart
    <2>1. served' \subseteq Users /\ counter' \in [Users -> Nat]
      BY <1>9, TypesLaunch DEF Types, RegenStart
    <2> QED  BY <1>9, <2>1 DEF Types, RegenStart
  <1>10. CASE RegenReset  BY <1>10, <1>z DEF Types, RegenReset
  <1> QED  BY <1>1, <1>2, <1>3, <1>4, <1>5, <1>6, <1>7, <1>8, <1>9, <1>10 DEF Regenerate

LEMMA TypesStep == ASSUME Types, [Next]_vars PROVE Types'
  <1> USE DEF store, acct, plane, bounds
  <1>z. Zero \in [Users -> Nat] /\ [u \in Users |-> NoUser] \in Table  BY DEF Zero, Table
  <1>1. CASE Change  BY <1>1, TypesCreate, TypesUpdate, TypesDelete DEF Change
  <1>2. CASE Tick  BY <1>2, TypesTick
  <1>3. CASE Regenerate  BY <1>3, TypesRegenerate
  <1>4. CASE \E u \in Users : Traffic(u)  BY <1>4 DEF Types, Traffic
  <1>5. CASE SingboxCrash  BY <1>5, <1>z DEF Types, SingboxCrash
  <1>6. CASE MonitorRestart
    <2>1. served' \subseteq Users /\ counter' \in [Users -> Nat]
      BY <1>6, TypesLaunch DEF Types, MonitorRestart
    <2> QED  BY <1>6, <2>1 DEF Types, MonitorRestart
  <1>7. CASE Clock  BY <1>7 DEF Types, Clock
  <1>8. CASE AgentCrash  BY <1>8, <1>z, EmptyReading DEF Types, AgentCrash
  <1>9. CASE Boot  BY <1>9, <1>z DEF Types, Boot
  <1>10. CASE UNCHANGED vars  BY <1>10 DEF Types, vars
  <1> QED  BY <1>1, <1>2, <1>3, <1>4, <1>5, <1>6, <1>7, <1>8, <1>9, <1>10 DEF Next

-----------------------------------------------------------------------------
(* The Store and its file.                                                 *)

\* As long as no save failed the file is what is in memory, and keeps the promises
\* when the memory is gone.
Durable ==
    ~damaged =>
        /\ disk # Torn
        /\ Alive => users = disk
        /\ \A u \in Users : /\ promised[u] = "present" => disk[u] # NoUser
                            /\ promised[u] = "absent"  => disk[u] = NoUser

\* Nobody holds regenMu in an agent that is dead.
HolderAlive == regen # "idle" => Alive

LEMMA HolderStep == ASSUME HolderAlive, [Next]_vars PROVE HolderAlive'
  <1> USE DEF store, acct, plane, bounds, HolderAlive, Alive
  <1>1. CASE Change
    BY <1>1 DEF Change, CreateUser, UpdateUser, DeleteUser
  <1>2. CASE Tick
    BY <1>2 DEF Tick, TickCollect, TickDeltas, TickAdd, TickEnd
  <1>3. CASE Regenerate
    BY <1>3 DEF Regenerate, RegenLock, RegenCollect, RegenDeltas, RegenAdd, RegenAdded, RegenList,
                RegenWrite, RegenApply, RegenStart, RegenReset, RegenEnd
  <1>4. CASE (\E u \in Users : Traffic(u)) \/ SingboxCrash \/ MonitorRestart \/ Clock
    BY <1>4 DEF Traffic, SingboxCrash, MonitorRestart, Clock
  <1>5. CASE AgentCrash \/ Boot \/ UNCHANGED vars  BY <1>5 DEF AgentCrash, Boot, vars
  <1> QED  BY <1>1, <1>2, <1>3, <1>4, <1>5 DEF Next

LEMMA InitDurable == Init => Durable
  <1> SUFFICES ASSUME Init PROVE Durable  OBVIOUS
  <1>1. users \in Table  BY DEF Init, Table
  <1>2. disk # Torn  BY <1>1, Constants DEF Init
  <1> QED  BY <1>2 DEF Init, Durable

\* A save that succeeds keeps the promises, one that fails is damage.
LEMMA DurableChange == ASSUME Types, Types', Durable, Change PROVE Durable'
  <1> SUFFICES ASSUME ~damaged' PROVE Durable'  BY DEF Durable
  <1>t. Alive  BY DEF Change, CreateUser, UpdateUser, DeleteUser, Request
  <1>a. users' # Torn  BY Constants DEF Types
  <1>1. CASE \E u \in Users, limit \in Limits, expire \in Expiries :
                CreateUser(u, limit, expire)
    <2>1. PICK u \in Users, limit \in Limits, expire \in Expiries :
                CreateUser(u, limit, expire)
      BY <1>1
    <2>2. ~SaveFails  BY DEF SaveFails
    <2> DEFINE rec == [enabled |-> TRUE, limit |-> limit, used |-> 0, expire |-> expire]
    <2>3. rec \in User  BY Constants DEF User
    <2>4. rec # NoUser  BY <2>3, Constants
    <2>5. /\ users' = [users EXCEPT ![u] = rec] /\ disk' = users' /\ damaged' = damaged
          /\ promised' = [promised EXCEPT ![u] = "present"]
      BY <2>1, <2>2 DEF CreateUser, SaveOk
    <2> HIDE DEF rec
    <2> QED  BY <1>t, <1>a, <2>4, <2>5 DEF Durable, Types, Table
  <1>2. CASE \E u \in Users, enabled \in BOOLEAN, limit \in Limits, expire \in Expiries :
                UpdateUser(u, enabled, limit, expire)
    <2>1. PICK u \in Users, enabled \in BOOLEAN, limit \in Limits, expire \in Expiries :
                UpdateUser(u, enabled, limit, expire)
      BY <1>2
    <2>2. disk' = users' /\ damaged' = damaged /\ promised' = promised
      BY <2>1 DEF UpdateUser, SaveOk, SaveFails
    <2>3. users[u] \in User  BY <2>1, UserIs DEF UpdateUser
    <2>4. \A v \in Users \ {u} : users'[v] = users[v]  BY <2>1 DEF UpdateUser, Types, Table
    <2>5. users'[u] # NoUser
      <3>1. users'[u] = [users[u] EXCEPT !.enabled = enabled, !.limit = limit,
                                         !.expire = expire]
        BY <2>1, <2>3 DEF UpdateUser, Types, Table, User
      <3>2. users'[u] \in User  BY <2>3, <3>1, Constants DEF User
      <3> QED  BY <3>2, Constants
    <2>6. users[u] # NoUser  BY <2>1 DEF UpdateUser
    <2> QED  BY <1>t, <1>a, <2>2, <2>4, <2>5, <2>6 DEF Durable
  <1>3. CASE \E u \in Users : DeleteUser(u)
    <2>1. PICK u \in Users : DeleteUser(u)  BY <1>3
    <2>2. /\ users' = [users EXCEPT ![u] = NoUser] /\ disk' = users' /\ damaged' = damaged
          /\ promised' = [promised EXCEPT ![u] = "absent"]
      BY <2>1 DEF DeleteUser, SaveOk, SaveFails
    <2> QED  BY <1>t, <1>a, <2>2 DEF Durable, Types, Table
  <1> QED  BY <1>1, <1>2, <1>3 DEF Change

\* Adding traffic changes no user's presence, in memory or in the file.
LEMMA DurableAdd ==
    ASSUME Types, Types', Durable, NEW t \in Thread, NEW u \in Users, AddTraffic(t, u),
           Alive, UNCHANGED Alive
    PROVE  Durable'
  <1> SUFFICES ASSUME ~damaged' PROVE Durable'  BY DEF Durable
  <1>a. users' # Torn  BY Constants DEF Types
  <1>1. CASE users[u] = NoUser  BY <1>1 DEF AddTraffic, Durable
  <1>2. CASE users[u] # NoUser
    <2>1. disk' = users' /\ damaged' = damaged /\ promised' = promised
      BY <1>2 DEF AddTraffic, SaveOk, SaveFails
    <2>2. \A v \in Users \ {u} : users'[v] = users[v]  BY <1>2 DEF AddTraffic, Types, Table
    <2>3. users'[u] # NoUser
      <3>1. users[u] \in User /\ users[u].used \in Nat  BY <1>2, UserIs
      <3>2. users'[u] = [users[u] EXCEPT !.used = users[u].used + due[t][u]]
        BY <1>2 DEF AddTraffic, Types, Table
      <3>3. users[u].used + due[t][u] \in Nat  BY <3>1 DEF Types
      <3>4. users'[u] \in User  BY <3>1, <3>2, <3>3 DEF User
      <3> QED  BY <3>4, Constants
    <2> QED  BY <1>2, <1>a, <2>1, <2>2, <2>3 DEF Durable
  <1> QED  BY <1>1, <1>2

LEMMA DurableStep ==
    ASSUME Types, Types', HolderAlive, Durable, [Next]_vars PROVE Durable'
  <1> USE DEF store, acct, plane, bounds
  <1>1. CASE Change  BY <1>1, DurableChange
  <1>2. CASE Tick
    <2>1. CASE \E u \in Users : TickAdd(u)  BY <2>1, DurableAdd DEF TickAdd, Thread, Alive
    <2>2. CASE TickCollect \/ TickDeltas \/ TickEnd
      BY <2>2 DEF TickCollect, TickDeltas, TickEnd, Durable, Alive
    <2> QED  BY <1>2, <2>1, <2>2 DEF Tick
  <1>3. CASE Regenerate
    <2>1. CASE \E u \in Users : RegenAdd(u)
      BY <2>1, DurableAdd DEF RegenAdd, Thread, HolderAlive, Alive
    <2>2. CASE RegenLock \/ RegenCollect \/ RegenDeltas \/ RegenAdded \/ RegenList
      BY <2>2 DEF RegenLock, RegenCollect, RegenDeltas, RegenAdded, RegenList, Durable, Alive
    <2>3. CASE RegenWrite \/ RegenApply \/ RegenStart \/ RegenReset
      BY <2>3 DEF RegenWrite, RegenApply, RegenStart, RegenReset, RegenEnd, Durable, Alive
    <2> QED  BY <1>3, <2>1, <2>2, <2>3 DEF Regenerate
  <1>4. CASE (\E u \in Users : Traffic(u)) \/ SingboxCrash \/ MonitorRestart \/ Clock
    BY <1>4 DEF Traffic, SingboxCrash, MonitorRestart, Clock, Durable, Alive
  <1>5. CASE AgentCrash  BY <1>5 DEF AgentCrash, Durable, Alive
  <1>6. CASE Boot  BY <1>6 DEF Boot, Durable, Alive
  <1>7. CASE UNCHANGED vars  BY <1>7 DEF vars, Durable, Alive
  <1> QED  BY <1>1, <1>2, <1>3, <1>4, <1>5, <1>6, <1>7 DEF Next

\* What holds of the Store and its file together.
SInv == Types /\ HolderAlive /\ Durable

LEMMA AlwaysSInv == Spec => []SInv
  <1>1. Init => SInv  BY InitTypes, InitDurable DEF SInv, Init, HolderAlive
  <1>2. SInv /\ [Next]_vars => SInv'  BY TypesStep, HolderStep, DurableStep DEF SInv
  <1> QED  BY <1>1, <1>2, PTL DEF Spec

\* Acknowledged requests survive restarts: what CreateUser and DeleteUser promised
\* still holds of the Store after any number of crashes, unless a save failed.
THEOREM AckedSurvives == Spec => []AckedIsDurable
  <1>1. SInv => AckedIsDurable  BY DEF SInv, Durable, AckedIsDurable
  <1> QED  BY <1>1, AlwaysSInv, PTL

-----------------------------------------------------------------------------
(* The Store and the configuration.                                        *)

\* A regeneration is still to list the users, or a failure was logged.
Pending ==
    \/ waiting > 0 \/ regen \in {"account", "read", "add", "list"}
    \/ crossed \/ lost

\* S has no barred user and everybody who may be served.
Good(S) == \A u \in Users : (u \in S => ~Barred(u)) /\ (Generate(u) => u \in S)

\* Without one, the list being written or the one in config.json is good.
LatestIsGood ==
    Alive /\ ~Pending =>
        /\ regen = "write" => Good(snapshot)
        /\ regen # "write" => file # Torn /\ Good(file)

\* A running sing-box serves config.json, except between its write and the restart.
ServesTheFile == sb = "up" /\ regen # "apply" => served = file \/ file = Torn

\* Only the main loop, while it adds traffic up, has seen a crossing.
CrossedInAdd == crossed => tick = "add"

LInv == LatestIsGood /\ ServesTheFile /\ CrossedInAdd

LEMMA InitLInv == Init => LInv
  BY DEF Init, LInv, LatestIsGood, ServesTheFile, CrossedInAdd, Pending

\* A change that succeeds starts a regeneration, one that fails is logged.
LEMMA LInvChange == ASSUME Types, LInv, Change PROVE LInv'
  <1> USE DEF acct, plane
  <1>1. UNCHANGED <<regen, tick, crossed, snapshot, file, sb, served, now>>
    BY DEF Change, CreateUser, UpdateUser, DeleteUser
  <1>2. ServesTheFile' /\ CrossedInAdd'  BY <1>1 DEF LInv, ServesTheFile, CrossedInAdd
  <1>3. Pending' \/ (users' = users /\ waiting' = waiting /\ lost' = lost)
    <2>1. ASSUME onChange PROVE Pending'  BY <2>1 DEF Types, onChange, Pending
    <2>2. onChange \/ lost' \/ (users' = users /\ waiting' = waiting /\ lost' = lost)
      <3>1. CASE \E u \in Users, limit \in Limits, expire \in Expiries :
                    CreateUser(u, limit, expire)
        BY <3>1, Zenon DEF CreateUser
      <3>2. CASE \E u \in Users, enabled \in BOOLEAN, limit \in Limits, expire \in Expiries :
                    UpdateUser(u, enabled, limit, expire)
        BY <3>2, Zenon DEF UpdateUser
      <3>3. CASE \E u \in Users : DeleteUser(u)  BY <3>3, Zenon DEF DeleteUser
      <3> QED  BY <3>1, <3>2, <3>3 DEF Change
    <2> QED  BY <2>1, <2>2 DEF Pending
  <1>4. LatestIsGood'
    BY <1>1, <1>3 DEF LInv, LatestIsGood, Pending, Good, Barred, Generate, OverQuota, Expired,
                      Alive
  <1> QED  BY <1>2, <1>4 DEF LInv

\* Traffic that makes nobody cross his limit leaves a good list good.
LEMMA GoodAdd ==
    ASSUME Types, NEW t \in Thread, NEW u \in Users, AddTraffic(t, u), now' = now,
           users[u] # NoUser =>
               ~Crosses(users[u].used, users[u].used + due[t][u], users[u].limit),
           NEW S, Good(S)
    PROVE  Good(S)'
  <1>1. CASE users[u] = NoUser
    <2>1. users' = users  BY <1>1 DEF AddTraffic
    <2> QED  BY <2>1 DEF Good, Barred, Generate, OverQuota, Expired
  <1>2. CASE users[u] # NoUser
    <2>1. /\ users[u] \in User /\ users[u].used \in Nat /\ users[u].limit \in Nat
          /\ due[t][u] \in Nat
      BY <1>2, UserIs DEF Types
    <2>2. \A v \in Users \ {u} : users'[v] = users[v]
      BY <1>2 DEF AddTraffic, Types, Table
    <2>3. users'[u] = [users[u] EXCEPT !.used = users[u].used + due[t][u]]
      BY <1>2 DEF AddTraffic, Types, Table
    <2>4. /\ users'[u].used = users[u].used + due[t][u] /\ users'[u].limit = users[u].limit
          /\ users'[u].enabled = users[u].enabled /\ users'[u].expire = users[u].expire
      BY <2>1, <2>3 DEF User
    <2>5. users'[u] # NoUser
      <3>1. users'[u] \in User  BY <2>1, <2>3 DEF User
      <3> QED  BY <3>1, Constants
    <2>6. OverQuota(u)' <=> OverQuota(u)
      BY <1>2, <2>1, <2>4 DEF OverQuota, Crosses
    <2>7. (Barred(u)' <=> Barred(u)) /\ (Generate(u)' <=> Generate(u))
      BY <1>2, <2>4, <2>5, <2>6 DEF Barred, Generate, Expired
    <2>8. \A v \in Users \ {u} : (Barred(v)' <=> Barred(v)) /\ (Generate(v)' <=> Generate(v))
      BY <2>2 DEF Barred, Generate, OverQuota, Expired
    <2> QED  BY <2>7, <2>8 DEF Good
  <1> QED  BY <1>1, <1>2

LEMMA LInvTick == ASSUME Types, LInv, Tick PROVE LInv'
  <1> USE DEF store, plane, bounds
  <1>0. CASE TickCollect \/ TickDeltas
    BY <1>0 DEF TickCollect, TickDeltas, Collect, Deltas, LInv, LatestIsGood, ServesTheFile,
                CrossedInAdd, Pending, Good, Barred, Generate, OverQuota, Expired, Alive
  <1>1. CASE \E u \in Users : TickAdd(u)
    <2>1. PICK u \in Users : TickAdd(u)  BY <1>1
    <2>2. /\ AddTraffic("tick", u) /\ tick = "add"
          /\ UNCHANGED <<tick, waiting, regen, snapshot, file, sb, served, now, lost>>
      BY <2>1 DEF TickAdd
    <2>3. ServesTheFile' /\ CrossedInAdd'  BY <2>2 DEF LInv, ServesTheFile, CrossedInAdd
    <2>4. CASE users[u] # NoUser
               /\ Crosses(users[u].used, users[u].used + due["tick"][u], users[u].limit)
      <3>1. crossed'  BY <2>2, <2>4 DEF AddTraffic
      <3> QED  BY <2>3, <3>1 DEF LInv, LatestIsGood, Pending
    <2>5. CASE ~(users[u] # NoUser
               /\ Crosses(users[u].used, users[u].used + due["tick"][u], users[u].limit))
      <3>1. crossed' = crossed  BY <2>2, <2>5 DEF AddTraffic, Types
      <3>2. Good(snapshot) => Good(snapshot)'
        <4>1. \A S : Good(S) => Good(S)'  BY <2>2, <2>5, GoodAdd DEF Thread
        <4> QED  BY <2>2, <4>1 DEF Good
      <3>3. Good(file) => Good(file)'
        <4>1. \A S : Good(S) => Good(S)'  BY <2>2, <2>5, GoodAdd DEF Thread
        <4> QED  BY <2>2, <4>1 DEF Good
      <3> QED  BY <2>2, <2>3, <3>1, <3>2, <3>3 DEF LInv, LatestIsGood, Pending, Alive
    <2> QED  BY <2>4, <2>5
  <1>2. CASE TickEnd
    <2>1. /\ UNCHANGED <<users, regen, snapshot, file, sb, served, now, lost>>
          /\ tick = "add" /\ tick' = "idle" /\ ~crossed'
      BY <1>2 DEF TickEnd
    <2>2. Pending => Pending'
      <3>1. crossed => waiting' > 0  BY <1>2 DEF TickEnd, Types
      <3>2. waiting > 0 => waiting' > 0  BY <1>2 DEF TickEnd, Types
      <3> QED  BY <2>1, <3>1, <3>2 DEF Pending
    <2> QED  BY <2>1, <2>2 DEF LInv, LatestIsGood, ServesTheFile, CrossedInAdd, Good, Barred,
                               Generate, OverQuota, Expired, Alive
  <1> QED  BY <1>0, <1>1, <1>2 DEF Tick

LEMMA LInvRegenerate == ASSUME Types, Types', LInv, Regenerate PROVE LInv'
  <1> USE DEF store, acct, plane, bounds
  <1>1. CASE RegenLock \/ RegenCollect \/ RegenDeltas \/ RegenAdded
    BY <1>1 DEF RegenLock, RegenCollect, RegenDeltas, RegenAdded, Collect, Deltas, LInv,
                LatestIsGood, ServesTheFile, CrossedInAdd, Pending
  <1>2. CASE \E u \in Users : RegenAdd(u)
    <2>1. PICK u \in Users : RegenAdd(u)  BY <1>2
    <2>2. crossed => crossed'  BY <2>1 DEF RegenAdd, AddTraffic
    <2>3. crossed' => crossed  BY <2>1 DEF RegenAdd, AddTraffic, Types
    <2> QED  BY <2>1, <2>2, <2>3 DEF RegenAdd, LInv, LatestIsGood, ServesTheFile, CrossedInAdd,
                                     Pending
  <1>3. CASE RegenList
    <2>1. Good(snapshot)'
      BY <1>3 DEF RegenList, Good, Barred, Generate, OverQuota, Expired
    <2> QED  BY <1>3, <2>1 DEF RegenList, LInv, LatestIsGood, ServesTheFile, CrossedInAdd
  <1>4. CASE RegenWrite
    <2>1. CASE lost'
      <3>1. file' = file \/ file' = Torn \/ (regen' = "apply" /\ tick' = tick)
        BY <1>4 DEF RegenWrite
      <3> QED  BY <1>4, <2>1, <3>1 DEF RegenWrite, RegenEnd, LInv, LatestIsGood, ServesTheFile,
                                       CrossedInAdd, Pending
    <2>2. CASE ~lost'
      <3>1. /\ file' = snapshot /\ regen = "write" /\ regen' = "apply"
            /\ UNCHANGED <<tick, users, crossed, waiting, lost, now, snapshot>>
        BY <1>4, <2>2 DEF RegenWrite
      <3>2. file' # Torn  BY <3>1, Constants DEF Types
      <3>3. Good(snapshot) => Good(file)'
        BY <3>1 DEF Good, Barred, Generate, OverQuota, Expired
      <3> QED  BY <3>1, <3>2, <3>3 DEF LInv, LatestIsGood, ServesTheFile, CrossedInAdd, Pending,
                                       Alive
    <2> QED  BY <2>1, <2>2
  <1>5. CASE RegenApply
    BY <1>5 DEF RegenApply, LInv, LatestIsGood, ServesTheFile, CrossedInAdd, Pending, Good,
                Barred, Generate, OverQuota, Expired, Alive
  <1>6. CASE RegenStart
    BY <1>6 DEF RegenStart, Launch, LInv, LatestIsGood, ServesTheFile, CrossedInAdd, Pending, Good,
                Barred, Generate, OverQuota, Expired, Alive
  <1>7. CASE RegenReset
    BY <1>7 DEF RegenReset, RegenEnd, LInv, LatestIsGood, ServesTheFile, CrossedInAdd, Pending,
                Good, Barred, Generate, OverQuota, Expired, Alive
  <1> QED  BY <1>1, <1>2, <1>3, <1>4, <1>5, <1>6, <1>7 DEF Regenerate

\* Time only takes users off the list.
LEMMA LInvClock == ASSUME Types, LInv, Clock PROVE LInv'
  <1> USE DEF store, acct, plane
  <1>1. UNCHANGED <<users, tick, crossed, waiting, regen, snapshot, file, sb, served, lost>>
        /\ now' = now + 1
    BY DEF Clock
  <1>2. ASSUME NEW u \in Users PROVE Generate(u)' => Generate(u)
    <2>1. CASE users[u] = NoUser  BY <1>1, <2>1 DEF Generate
    <2>2. CASE users[u] # NoUser
      <3>1. users[u].expire \in Nat  BY <2>2, UserIs
      <3>2. Expired(u) => Expired(u)'  BY <1>1, <3>1 DEF Types, Expired
      <3> QED  BY <1>1, <3>2 DEF Generate, OverQuota
    <2> QED  BY <2>1, <2>2
  <1>3. \A u \in Users : Barred(u)' <=> Barred(u)  BY <1>1 DEF Barred, OverQuota
  <1>4. (Good(snapshot) => Good(snapshot)') /\ (Good(file) => Good(file)')
    BY <1>1, <1>2, <1>3 DEF Good
  <1> QED  BY <1>1, <1>4 DEF LInv, LatestIsGood, ServesTheFile, CrossedInAdd, Pending, Alive

LEMMA LInvStep == ASSUME Types, Types', LInv, [Next]_vars PROVE LInv'
  <1> USE DEF store, acct, plane, bounds
  <1>1. CASE Change  BY <1>1, LInvChange
  <1>2. CASE Tick  BY <1>2, LInvTick
  <1>3. CASE Regenerate  BY <1>3, LInvRegenerate
  <1>4. CASE \E u \in Users : Traffic(u)
    BY <1>4 DEF Traffic, LInv, LatestIsGood, ServesTheFile, CrossedInAdd, Pending, Good, Barred,
                Generate, OverQuota, Expired, Alive
  <1>5. CASE SingboxCrash \/ MonitorRestart
    BY <1>5 DEF SingboxCrash, MonitorRestart, Launch, LInv, LatestIsGood, ServesTheFile,
                CrossedInAdd, Pending, Good, Barred, Generate, OverQuota, Expired, Alive
  <1>6. CASE Clock  BY <1>6, LInvClock
  <1>7. CASE AgentCrash
    BY <1>7 DEF AgentCrash, LInv, LatestIsGood, ServesTheFile, CrossedInAdd, Alive
  <1>8. CASE Boot
    BY <1>8 DEF Boot, LInv, LatestIsGood, ServesTheFile, CrossedInAdd, Pending
  <1>9. CASE UNCHANGED vars
    BY <1>9 DEF vars, LInv, LatestIsGood, ServesTheFile, CrossedInAdd, Pending, Good, Barred,
                Generate, OverQuota, Expired, Alive
  <1> QED  BY <1>1, <1>2, <1>3, <1>4, <1>5, <1>6, <1>7, <1>8, <1>9 DEF Next

\* Whatever order the regenerations, the accounting and the requests ran in, when
\* none is left and none failed a running sing-box serves exactly the users who may
\* be served (or did until they expired): no change and no crossing is lost between
\* the locks.
THEOREM StoreIsServed == Spec => []ServesTheStore
  <1> DEFINE IInv == Types /\ LInv
  <1>1. Init => IInv  BY InitTypes, InitLInv
  <1>2. IInv /\ [Next]_vars => IInv'  BY TypesStep, LInvStep
  <1>3. IInv => ServesTheStore
    <2> SUFFICES ASSUME IInv, Quiet, sb = "up", ~lost PROVE ServesTheStore
      BY DEF ServesTheStore
    <2>1. ~crossed  BY DEF LInv, CrossedInAdd, Quiet
    <2>2. ~Pending  BY <2>1 DEF Pending, Quiet
    <2>3. file # Torn /\ Good(file)  BY <2>2 DEF LInv, LatestIsGood, Quiet
    <2>4. served = file  BY <2>3 DEF LInv, ServesTheFile, Quiet
    <2> QED  BY <2>3, <2>4 DEF ServesTheStore, Good, Serving
  <1> HIDE DEF IInv
  <1>4. Spec => []IInv  BY <1>1, <1>2, PTL DEF Spec
  <1> QED  BY <1>3, <1>4, PTL

-----------------------------------------------------------------------------
(* Charging.  Readings that are applied out of order are charged twice;    *)
(* this part shows that nothing else is.                                   *)

\* The main loop holds no reading while regenerateConfig holds one, nor between the
\* restart of sing-box and the Meter.Reset that follows it.
Separate == tick = "read" => regen \notin {"read", "start", "reset"}

\* Only a thread between Collect and Deltas holds a reading, and only one that adds up
\* has deltas.
HeldWhere ==
    /\ tick # "read" => reading["tick"] = Empty
    /\ regen # "read" => reading["regen"] = Empty
    /\ tick # "add" => due["tick"] = Zero
    /\ regen # "add" => due["regen"] = Zero

\* What table t says that u has used.
UsedIn(t, u) == IF t[u] = NoUser THEN 0 ELSE t[u].used

\* Meter.last once the reading somebody holds is applied.
Collected(u) ==
    IF u \in DOMAIN reading["tick"] THEN reading["tick"][u]
    ELSE IF u \in DOMAIN reading["regen"] THEN reading["regen"][u] ELSE last[u]

\* What the readings taken so far charge u.
Charged(u) ==
    UsedIn(users, u) + due["tick"][u] + due["regen"][u] + delta(Collected(u), last[u])

\* What the next reading will charge u; at the end of a regeneration the Meter
\* forgets the last one.
Owed(u) ==
    IF sb # "up" THEN 0
    ELSE IF regen \in {"start", "reset"} THEN counter[u]
    ELSE delta(counter[u], Collected(u))

\* Both together are no more than what flowed, and the file says no more either.
Honest ==
    \A u \in Users : /\ Charged(u) + Owed(u) <= real[u]
                     /\ disk # Torn => UsedIn(disk, u) <= real[u]

LEMMA DeltaFacts ==
    ASSUME NEW cur \in Nat, NEW prev \in Nat
    PROVE  /\ delta(cur, prev) \in Nat /\ delta(cur, prev) <= cur
           /\ delta(cur, cur) = 0 /\ delta(0, prev) = 0 /\ delta(cur, 0) = cur
           /\ delta(cur + 1, prev) <= delta(cur, prev) + 1
  BY DEF delta

LEMMA UsedInNat ==
    ASSUME NEW t \in Table, NEW u \in Users PROVE UsedIn(t, u) \in Nat
  <1>1. CASE t[u] = NoUser  BY <1>1 DEF UsedIn
  <1>2. CASE t[u] # NoUser
    <2>1. t[u] \in User  BY <1>2 DEF Table
    <2> QED  BY <1>2, <2>1 DEF UsedIn, User
  <1> QED  BY <1>1, <1>2

LEMMA Numbers ==
    ASSUME Types, NEW u \in Users
    PROVE  /\ Collected(u) \in Nat /\ last[u] \in Nat /\ counter[u] \in Nat /\ real[u] \in Nat
           /\ UsedIn(users, u) \in Nat /\ due["tick"][u] \in Nat /\ due["regen"][u] \in Nat
           /\ Charged(u) \in Nat /\ Owed(u) \in Nat
  <1>1. /\ last[u] \in Nat /\ counter[u] \in Nat /\ real[u] \in Nat
        /\ due["tick"][u] \in Nat /\ due["regen"][u] \in Nat
    BY DEF Types, Thread
  <1>2. reading["tick"] \in Readings /\ reading["regen"] \in Readings  BY DEF Types, Thread
  <1>3. Collected(u) \in Nat  BY <1>1, <1>2, ReadingOut DEF Collected
  <1>4. UsedIn(users, u) \in Nat  BY UsedInNat DEF Types
  <1>5. delta(Collected(u), last[u]) \in Nat /\ delta(counter[u], Collected(u)) \in Nat
    BY <1>1, <1>3, DeltaFacts
  <1> QED  BY <1>1, <1>3, <1>4, <1>5 DEF Charged, Owed

LEMMA NumbersNext ==
    ASSUME Types', NEW u \in Users
    PROVE  /\ Collected(u)' \in Nat /\ last'[u] \in Nat /\ counter'[u] \in Nat /\ real'[u] \in Nat
           /\ UsedIn(users', u) \in Nat
           /\ due'["tick"][u] \in Nat /\ due'["regen"][u] \in Nat
           /\ Charged(u)' \in Nat /\ Owed(u)' \in Nat
  <1>1. /\ last'[u] \in Nat /\ counter'[u] \in Nat /\ real'[u] \in Nat
        /\ due'["tick"][u] \in Nat /\ due'["regen"][u] \in Nat
    BY DEF Types, Thread
  <1>2. reading'["tick"] \in Readings /\ reading'["regen"] \in Readings  BY DEF Types, Thread
  <1>3. Collected(u)' \in Nat  BY <1>1, <1>2, ReadingOut DEF Collected
  <1>4. UsedIn(users', u) \in Nat  BY UsedInNat DEF Types
  <1>5. delta(Collected(u)', last'[u]) \in Nat /\ delta(counter'[u], Collected(u)') \in Nat
    BY <1>1, <1>3, DeltaFacts
  <1> QED  BY <1>1, <1>3, <1>4, <1>5 DEF Charged, Owed

LEMMA InitHonest == Init => HeldWhere /\ Honest
  <1> SUFFICES ASSUME Init PROVE HeldWhere /\ Honest  OBVIOUS
  <1>1. HeldWhere  BY DEF Init, HeldWhere, Thread
  <1>2. ASSUME NEW u \in Users
        PROVE  Charged(u) + Owed(u) <= real[u] /\ UsedIn(disk, u) <= real[u]
    <2>1. reading["tick"] = Empty /\ reading["regen"] = Empty  BY DEF Init, Thread
    <2>2. Collected(u) = 0  BY <2>1 DEF Init, Collected, Empty, Zero
    <2>3. Charged(u) = 0  BY <2>2 DEF Init, Charged, UsedIn, delta, Zero, Thread
    <2> QED  BY <2>3 DEF Init, Owed, UsedIn, Zero
  <1> QED  BY <1>1, <1>2 DEF Honest

LEMMA HeldStep == ASSUME Types, HeldWhere, [Next]_vars PROVE HeldWhere'
  <1> USE DEF store, acct, plane, bounds, HeldWhere
  <1>1. CASE Change  BY <1>1 DEF Change, CreateUser, UpdateUser, DeleteUser
  <1>2. CASE Tick
    <2>1. CASE TickCollect  BY <2>1 DEF TickCollect, Collect, Types, Thread
    <2>2. CASE TickDeltas  BY <2>2 DEF TickDeltas, Deltas, Types, Thread
    <2>3. CASE \E u \in Users : TickAdd(u)
      BY <2>3 DEF TickAdd, AddTraffic, Types, Thread
    <2>4. CASE TickEnd  BY <2>4 DEF TickEnd
    <2> QED  BY <1>2, <2>1, <2>2, <2>3, <2>4 DEF Tick
  <1>3. CASE Regenerate
    <2>1. CASE RegenCollect  BY <2>1 DEF RegenCollect, Collect, Types, Thread
    <2>2. CASE RegenDeltas  BY <2>2 DEF RegenDeltas, Deltas, Types, Thread
    <2>3. CASE \E u \in Users : RegenAdd(u)
      BY <2>3 DEF RegenAdd, AddTraffic, Types, Thread
    <2>4. CASE RegenLock \/ RegenAdded \/ RegenList \/ RegenWrite
      BY <2>4 DEF RegenLock, RegenAdded, RegenList, RegenWrite, RegenEnd
    <2>5. CASE RegenApply \/ RegenStart \/ RegenReset
      BY <2>5 DEF RegenApply, RegenStart, RegenReset, RegenEnd
    <2> QED  BY <1>3, <2>1, <2>2, <2>3, <2>4, <2>5 DEF Regenerate
  <1>4. CASE (\E u \in Users : Traffic(u)) \/ SingboxCrash \/ MonitorRestart \/ Clock
    BY <1>4 DEF Traffic, SingboxCrash, MonitorRestart, Clock
  <1>5. CASE AgentCrash  BY <1>5 DEF AgentCrash, Thread
  <1>6. CASE Boot \/ UNCHANGED vars  BY <1>6 DEF Boot, vars
  <1> QED  BY <1>1, <1>2, <1>3, <1>4, <1>5, <1>6 DEF Next

\* Steps that touch neither the Store nor the accounting are honest if they do not
\* make the next reading charge more than they let flow.
LEMMA HonestPlane ==
    ASSUME Types, Types', Honest, UNCHANGED <<users, disk, last, reading, due>>,
           \A u \in Users : Owed(u)' - Owed(u) <= real'[u] - real[u] /\ real'[u] >= real[u]
    PROVE  Honest'
  <1> SUFFICES ASSUME NEW u \in Users
               PROVE  /\ Charged(u)' + Owed(u)' <= real'[u]
                      /\ disk # Torn => UsedIn(disk, u) <= real'[u]
    BY DEF Honest, UsedIn
  <1>1. Charged(u)' = Charged(u)  BY DEF Charged, Collected, UsedIn
  <1>2. /\ Charged(u) \in Nat /\ Owed(u) \in Nat /\ Owed(u)' \in Nat
        /\ real[u] \in Nat /\ real'[u] \in Nat
    <2>1. Charged(u) \in Nat /\ Owed(u) \in Nat /\ real[u] \in Nat  BY Numbers
    <2>2. Owed(u)' \in Nat /\ real'[u] \in Nat  BY NumbersNext
    <2> QED  BY <2>1, <2>2
  <1>3. disk # Torn => UsedIn(disk, u) \in Nat  BY UsedInNat DEF Types
  <1>4. Charged(u) + Owed(u) <= real[u] /\ (disk # Torn => UsedIn(disk, u) <= real[u])
    BY DEF Honest
  <1> QED  BY <1>1, <1>2, <1>3, <1>4

\* Steps of the Store are honest if nobody's traffic and deltas together grow.
LEMMA HonestStore ==
    ASSUME Types, Types', Honest, UNCHANGED <<last, reading, counter, real, sb, regen>>,
           disk' \in {users', disk, Torn},
           \A u \in Users : UsedIn(users', u) + due'["tick"][u] + due'["regen"][u]
                              <= UsedIn(users, u) + due["tick"][u] + due["regen"][u]
    PROVE  Honest'
  <1> SUFFICES ASSUME NEW u \in Users
               PROVE  /\ Charged(u)' + Owed(u)' <= real[u]
                      /\ disk' # Torn => UsedIn(disk', u) <= real[u]
    BY DEF Honest, UsedIn
  <1> DEFINE d == delta(Collected(u), last[u])
  <1>1. Collected(u)' = Collected(u)  BY DEF Collected
  <1>2. Owed(u)' = Owed(u)  BY <1>1 DEF Owed
  <1>3. Charged(u)' = UsedIn(users', u) + due'["tick"][u] + due'["regen"][u] + d
    BY <1>1 DEF Charged, UsedIn
  <1>4. Charged(u) = UsedIn(users, u) + due["tick"][u] + due["regen"][u] + d  BY DEF Charged
  <1>5. /\ UsedIn(users, u) \in Nat /\ due["tick"][u] \in Nat /\ due["regen"][u] \in Nat
        /\ Collected(u) \in Nat /\ last[u] \in Nat /\ Owed(u) \in Nat /\ real[u] \in Nat
    BY Numbers
  <1>6. UsedIn(users', u) \in Nat /\ due'["tick"][u] \in Nat /\ due'["regen"][u] \in Nat
    BY NumbersNext
  <1>7. d \in Nat  BY <1>5, DeltaFacts
  <1>8. Charged(u) + Owed(u) <= real[u] /\ (disk # Torn => UsedIn(disk, u) <= real[u])
    BY DEF Honest
  <1>9. UsedIn(users', u) + due'["tick"][u] + due'["regen"][u]
          <= UsedIn(users, u) + due["tick"][u] + due["regen"][u]
    OBVIOUS
  <1> HIDE DEF d
  <1>10. Charged(u)' + Owed(u)' <= real[u] /\ UsedIn(users', u) <= real[u]
    BY <1>2, <1>3, <1>4, <1>5, <1>6, <1>7, <1>8, <1>9
  <1> QED  BY <1>8, <1>10

\* Requests: a new user has used nothing, an update leaves the traffic alone.
LEMMA HonestChange == ASSUME Types, Types', Honest, Change PROVE Honest'
  <1> USE DEF acct, plane
  <1>1. UNCHANGED <<last, reading, due, counter, real, sb, regen>>
    BY DEF Change, CreateUser, UpdateUser, DeleteUser
  <1>2. disk' \in {users', disk, Torn}
    BY DEF Change, CreateUser, UpdateUser, DeleteUser, SaveOk, SaveFails
  <1>3. ASSUME NEW v \in Users PROVE UsedIn(users', v) <= UsedIn(users, v)
    <2>0. UsedIn(users, v) \in Nat  BY Numbers
    <2>1. CASE \E u \in Users, limit \in Limits, expire \in Expiries :
                  CreateUser(u, limit, expire)
      <3>1. PICK u \in Users, limit \in Limits, expire \in Expiries :
                  CreateUser(u, limit, expire)
        BY <2>1
      <3> DEFINE rec == [enabled |-> TRUE, limit |-> limit, used |-> 0, expire |-> expire]
      <3>2. rec.used = 0  OBVIOUS
      <3>3. users' = users \/ users' = [users EXCEPT ![u] = rec]  BY <3>1 DEF CreateUser
      <3> HIDE DEF rec
      <3>4. users'[v] = users[v] \/ users'[v] = rec  BY <3>3 DEF Types, Table
      <3> QED  BY <2>0, <3>2, <3>4 DEF UsedIn
    <2>2. CASE \E u \in Users, enabled \in BOOLEAN, limit \in Limits, expire \in Expiries :
                  UpdateUser(u, enabled, limit, expire)
      <3>1. PICK u \in Users, enabled \in BOOLEAN, limit \in Limits, expire \in Expiries :
                  UpdateUser(u, enabled, limit, expire)
        BY <2>2
      <3>2. users[u] # NoUser /\ users[u] \in User  BY <3>1, UserIs DEF UpdateUser
      <3>3. CASE v # u
        <4>1. users'[v] = users[v]  BY <3>1, <3>3 DEF UpdateUser, Types, Table
        <4> QED  BY <2>0, <4>1 DEF UsedIn
      <3>4. CASE v = u
        <4>1. users'[u] = [users[u] EXCEPT !.enabled = enabled, !.limit = limit,
                                           !.expire = expire]
          BY <3>1, <3>2 DEF UpdateUser, Types, Table, User
        <4>2. users'[u].used = users[u].used  BY <3>2, <4>1 DEF User
        <4> QED  BY <2>0, <3>2, <3>4, <4>2 DEF UsedIn
      <3> QED  BY <3>3, <3>4
    <2>3. CASE \E u \in Users : DeleteUser(u)
      <3>1. users'[v] = users[v] \/ users'[v] = NoUser  BY <2>3 DEF DeleteUser, Types, Table
      <3> QED  BY <2>0, <3>1 DEF UsedIn
    <2> QED  BY <2>1, <2>2, <2>3 DEF Change
  <1>4. ASSUME NEW v \in Users
        PROVE  UsedIn(users', v) + due'["tick"][v] + due'["regen"][v]
                 <= UsedIn(users, v) + due["tick"][v] + due["regen"][v]
    <2>1. UsedIn(users, v) \in Nat /\ due["tick"][v] \in Nat /\ due["regen"][v] \in Nat
      BY Numbers
    <2>2. UsedIn(users', v) \in Nat  BY NumbersNext
    <2>3. UsedIn(users', v) <= UsedIn(users, v) /\ due' = due  BY <1>1, <1>3
    <2> QED  BY <2>1, <2>2, <2>3
  <1> QED  BY <1>1, <1>2, <1>4, HonestStore

\* Adding a delta moves it from due to the Store, or drops it.
LEMMA HonestAdd ==
    ASSUME Types, Types', Honest, NEW t \in Thread, NEW u \in Users, AddTraffic(t, u),
           UNCHANGED <<counter, real, sb, regen>>
    PROVE  Honest'
  <1>1. UNCHANGED <<last, reading>>  BY DEF AddTraffic
  <1>2. disk' \in {users', disk, Torn}  BY DEF AddTraffic, SaveOk, SaveFails
  <1>3. due'[t][u] = 0 /\ \A x \in Thread, v \in Users : x # t \/ v # u => due'[x][v] = due[x][v]
    BY DEF AddTraffic, Types
  <1>4. \A v \in Users \ {u} : UsedIn(users', v) = UsedIn(users, v)
    BY DEF AddTraffic, Types, Table, UsedIn
  <1>5. UsedIn(users', u) <= UsedIn(users, u) + due[t][u]
    <2>0. UsedIn(users, u) \in Nat /\ due[t][u] \in Nat  BY Numbers DEF Types
    <2>1. CASE users[u] = NoUser
      <3>1. users' = users  BY <2>1 DEF AddTraffic
      <3> QED  BY <2>0, <3>1
    <2>2. CASE users[u] # NoUser
      <3>1. users[u] \in User /\ users[u].used \in Nat  BY <2>2, UserIs
      <3>2. users'[u] = [users[u] EXCEPT !.used = users[u].used + due[t][u]]
        BY <2>2 DEF AddTraffic, Types, Table
      <3>3. users'[u].used = users[u].used + due[t][u]  BY <3>1, <3>2 DEF User
      <3> QED  BY <2>0, <2>2, <3>1, <3>3 DEF UsedIn
    <2> QED  BY <2>1, <2>2
  <1>6. ASSUME NEW v \in Users
        PROVE  UsedIn(users', v) + due'["tick"][v] + due'["regen"][v]
                 <= UsedIn(users, v) + due["tick"][v] + due["regen"][v]
    <2>1. UsedIn(users, v) \in Nat /\ due["tick"][v] \in Nat /\ due["regen"][v] \in Nat
      BY Numbers
    <2>2. UsedIn(users', v) \in Nat  BY NumbersNext
    <2>3. CASE v = u
      <3>1. t = "tick" \/ t = "regen"  BY DEF Thread
      <3> QED  BY <1>3, <1>5, <2>1, <2>2, <2>3, <3>1 DEF Thread
    <2>4. CASE v # u
      <3>1. due'["tick"][v] = due["tick"][v] /\ due'["regen"][v] = due["regen"][v]
        BY <1>3, <2>4 DEF Thread
      <3> QED  BY <1>4, <2>1, <2>4, <3>1
    <2> QED  BY <2>3, <2>4
  <1> QED  BY <1>1, <1>2, <1>6, HonestStore

\* Taking a reading turns what is owed into what is charged, if no other is held.
LEMMA HonestCollect ==
    ASSUME Types, Types', Honest, NEW t \in Thread, Collect(t), sb = "up",
           reading["tick"] = Empty, reading["regen"] = Empty,
           {regen, regen'} \cap {"start", "reset"} = {},
           UNCHANGED <<users, disk, counter, real, sb>>
    PROVE  Honest'
  <1> SUFFICES ASSUME NEW u \in Users
               PROVE  /\ Charged(u)' + Owed(u)' <= real[u]
                      /\ disk # Torn => UsedIn(disk, u) <= real[u]
    BY DEF Honest, UsedIn
  <1>1. /\ UsedIn(users, u) \in Nat /\ due["tick"][u] \in Nat /\ due["regen"][u] \in Nat
        /\ counter[u] \in Nat /\ last[u] \in Nat /\ real[u] \in Nat
    BY Numbers
  <1> DEFINE d == delta(counter[u], last[u])
             x == UsedIn(users, u) + due["tick"][u] + due["regen"][u]
  <1>2. d \in Nat /\ x \in Nat /\ delta(last[u], last[u]) = 0 /\ delta(counter[u], counter[u]) = 0
    <2>1. d \in Nat  BY <1>1, DeltaFacts
    <2>2. delta(last[u], last[u]) = 0 /\ delta(counter[u], counter[u]) = 0  BY <1>1, DeltaFacts
    <2>3. x \in Nat  BY <1>1
    <2> QED  BY <2>1, <2>2, <2>3
  <1>3. Collected(u) = last[u]  BY DEF Collected, Empty
  <1>4. Charged(u) + Owed(u) = x + d
    <2>1. Charged(u) = x + 0  BY <1>2, <1>3 DEF Charged
    <2>2. Owed(u) = d  BY <1>3 DEF Owed
    <2> HIDE DEF x, d
    <2> QED  BY <1>2, <2>1, <2>2
  <1>5. UNCHANGED <<last, due>>  BY DEF Collect
  <1>6. CASE u \in served
    <2>1. Collected(u)' = counter[u]
      <3>1. reading'[t] = [v \in served |-> counter[v]]
            /\ \A y \in Thread \ {t} : reading'[y] = Empty
        BY DEF Collect, Types, Thread
      <3> QED  BY <1>6, <3>1 DEF Collected, Thread, Empty
    <2>2. Charged(u)' = x + d  BY <1>5, <2>1 DEF Charged, UsedIn
    <2>3. Owed(u)' = 0  BY <1>2, <2>1 DEF Owed
    <2> HIDE DEF x, d
    <2> QED  BY <1>2, <1>4, <2>2, <2>3 DEF Honest
  <1>7. CASE u \notin served
    <2>1. Collected(u)' = last[u]
      <3>1. reading'[t] = [v \in served |-> counter[v]]
            /\ \A y \in Thread \ {t} : reading'[y] = Empty
        BY DEF Collect, Types, Thread
      <3> QED  BY <1>5, <1>7, <3>1 DEF Collected, Thread, Empty
    <2>2. Charged(u)' = x  BY <1>1, <1>2, <1>5, <2>1 DEF Charged, UsedIn
    <2>3. Owed(u)' = d  BY <2>1 DEF Owed
    <2> HIDE DEF x, d
    <2> QED  BY <1>2, <1>4, <2>2, <2>3 DEF Honest
  <1> QED  BY <1>6, <1>7

\* Meter.Deltas turns the reading into deltas, if no other thread holds one.
LEMMA HonestDeltas ==
    ASSUME Types, Types', Honest, NEW t \in Thread, Deltas(t), due[t] = Zero,
           \A y \in Thread \ {t} : reading[y] = Empty,
           {regen, regen'} \cap {"start", "reset"} = {},
           UNCHANGED <<users, disk, counter, real, sb>>
    PROVE  Honest'
  <1> SUFFICES ASSUME NEW u \in Users
               PROVE  /\ Charged(u)' + Owed(u)' <= real[u]
                      /\ disk # Torn => UsedIn(disk, u) <= real[u]
    BY DEF Honest, UsedIn
  <1>1. /\ UsedIn(users, u) \in Nat /\ due["tick"][u] \in Nat /\ due["regen"][u] \in Nat
        /\ Collected(u) \in Nat /\ last[u] \in Nat
    BY Numbers
  <1> DEFINE d == delta(Collected(u), last[u])
  <1>2. d \in Nat /\ delta(last[u], last[u]) = 0 /\ delta(Collected(u), Collected(u)) = 0
    BY <1>1, DeltaFacts
  <1>3. Collected(u) = IF u \in DOMAIN reading[t] THEN reading[t][u] ELSE last[u]
    BY DEF Collected, Thread, Empty
  <1>4. last'[u] = Collected(u)  BY <1>3 DEF Deltas
  <1>5. due'[t][u] = d
    <2>1. due'[t][u] = IF u \in DOMAIN reading[t] THEN delta(reading[t][u], last[u]) ELSE 0
      BY DEF Deltas, Types
    <2> QED  BY <1>2, <1>3, <2>1
  <1>6. \A y \in Thread \ {t} : due'[y] = due[y]  BY DEF Deltas, Types
  <1>7. \A y \in Thread : reading'[y] = Empty  BY DEF Deltas, Types
  <1>8. Collected(u)' = Collected(u)  BY <1>4, <1>7 DEF Collected, Thread, Empty
  <1>9. Owed(u)' = Owed(u)  BY <1>8 DEF Owed
  <1>10. delta(Collected(u)', last'[u]) = 0  BY <1>2, <1>4, <1>8
  <1>11. due[t][u] = 0  BY DEF Zero
  <1>12. Charged(u)' = Charged(u)
    <2>1. Charged(u)' = UsedIn(users, u) + due'["tick"][u] + due'["regen"][u] + 0
      BY <1>10 DEF Charged, UsedIn
    <2>2. Charged(u) = UsedIn(users, u) + due["tick"][u] + due["regen"][u] + d  BY DEF Charged
    <2> HIDE DEF d
    <2>3. CASE t = "tick"
      <3>1. due'["regen"][u] = due["regen"][u]  BY <1>6, <2>3 DEF Thread
      <3> QED  BY <1>1, <1>2, <1>5, <1>11, <2>1, <2>2, <2>3, <3>1
    <2>4. CASE t = "regen"
      <3>1. due'["tick"][u] = due["tick"][u]  BY <1>6, <2>4 DEF Thread
      <3> QED  BY <1>1, <1>2, <1>5, <1>11, <2>1, <2>2, <2>4, <3>1
    <2> QED  BY <2>3, <2>4 DEF Thread
  <1> QED  BY <1>9, <1>12 DEF Honest

\* Meter.Reset forgets a reading of the process before; the new one has been read by
\* nobody.
LEMMA HonestReset ==
    ASSUME Types, Types', Honest, HeldWhere, Separate, RegenReset PROVE Honest'
  <1> USE DEF store, plane, bounds
  <1> SUFFICES ASSUME NEW u \in Users
               PROVE  /\ Charged(u)' + Owed(u)' <= real[u]
                      /\ disk # Torn => UsedIn(disk, u) <= real[u]
    BY DEF Honest, UsedIn, RegenReset
  <1>1. reading["tick"] = Empty /\ reading["regen"] = Empty
    BY DEF RegenReset, Separate, HeldWhere
  <1>2. /\ UsedIn(users, u) \in Nat /\ due["tick"][u] \in Nat /\ due["regen"][u] \in Nat
        /\ counter[u] \in Nat /\ last[u] \in Nat
    BY Numbers
  <1>3. delta(counter[u], 0) = counter[u] /\ delta(0, 0) = 0 /\ delta(last[u], last[u]) = 0
    BY <1>2, DeltaFacts
  <1>4. Collected(u) = last[u] /\ Collected(u)' = 0
    BY <1>1 DEF RegenReset, Collected, Empty, Zero
  <1>5. Charged(u)' = Charged(u)  BY <1>3, <1>4 DEF RegenReset, Charged, UsedIn, Zero
  <1>6. Owed(u)' = Owed(u)  BY <1>3, <1>4 DEF RegenReset, RegenEnd, Owed
  <1> QED  BY <1>5, <1>6 DEF Honest

\* A step that leaves the plane alone and does not move the regeneration into or out of
\* its restart owes the same.
LEMMA HonestIdle ==
    ASSUME Types, Types', Honest, UNCHANGED <<users, disk, last, reading, due, real, counter, sb>>,
           regen \in {"start", "reset"} <=> regen' \in {"start", "reset"}
    PROVE  Honest'
  <1>1. ASSUME NEW u \in Users
        PROVE  Owed(u)' - Owed(u) <= real'[u] - real[u] /\ real'[u] >= real[u]
    <2>1. Owed(u)' = Owed(u)  BY DEF Owed, Collected
    <2>2. Owed(u) \in Nat /\ real[u] \in Nat  BY Numbers
    <2> QED  BY <2>1, <2>2
  <1> QED  BY <1>1, HonestPlane

\* A process that is gone, or has just started, owes nothing.
LEMMA HonestProcess ==
    ASSUME Types, Types', Honest, UNCHANGED <<users, disk, last, reading, due, real>>,
           sb' # "up" \/ counter' = Zero
    PROVE  Honest'
  <1>1. ASSUME NEW u \in Users
        PROVE  Owed(u)' - Owed(u) <= real'[u] - real[u] /\ real'[u] >= real[u]
    <2>1. Owed(u)' = 0
      <3>1. CASE sb' # "up"  BY <3>1 DEF Owed
      <3>2. CASE counter' = Zero
        <4>1. Collected(u)' \in Nat  BY NumbersNext
        <4>2. delta(0, Collected(u)') = 0  BY <4>1, DeltaFacts
        <4>3. counter'[u] = 0  BY <3>2 DEF Zero
        <4> QED  BY <4>2, <4>3 DEF Owed
      <3> QED  BY <3>1, <3>2
    <2>2. Owed(u) \in Nat /\ real[u] \in Nat  BY Numbers
    <2> QED  BY <2>1, <2>2
  <1> QED  BY <1>1, HonestPlane

\* A unit of traffic is owed at most once.
LEMMA HonestTraffic ==
    ASSUME Types, Types', Honest, NEW v \in Users, Traffic(v) PROVE Honest'
  <1> USE DEF store, acct, bounds
  <1>1. UNCHANGED <<users, disk, last, reading, due, sb, regen>>  BY DEF Traffic
  <1>2. ASSUME NEW u \in Users
        PROVE  Owed(u)' - Owed(u) <= real'[u] - real[u] /\ real'[u] >= real[u]
    <2>1. /\ Owed(u) \in Nat /\ real[u] \in Nat /\ Collected(u) \in Nat /\ counter[u] \in Nat
      BY Numbers
    <2>2. Collected(u)' = Collected(u)  BY <1>1 DEF Collected
    <2>3. CASE u # v
      <3>1. counter'[u] = counter[u] /\ real'[u] = real[u]  BY <2>3 DEF Traffic, Types
      <3>2. Owed(u)' = Owed(u)  BY <1>1, <2>2, <3>1 DEF Owed
      <3> QED  BY <2>1, <3>1, <3>2
    <2>4. CASE u = v
      <3>1. counter'[u] = counter[u] + 1 /\ real'[u] = real[u] + 1  BY <2>4 DEF Traffic, Types
      <3>2. delta(counter[u] + 1, Collected(u)) <= delta(counter[u], Collected(u)) + 1
            /\ delta(counter[u], Collected(u)) \in Nat
        BY <2>1, DeltaFacts
      <3>3. Owed(u)' \in Nat  BY NumbersNext
      <3>4. Owed(u)' <= Owed(u) + 1  BY <1>1, <2>1, <2>2, <3>1, <3>2 DEF Owed
      <3> QED  BY <2>1, <3>1, <3>3, <3>4
    <2> QED  BY <2>3, <2>4
  <1> QED  BY <1>1, <1>2, HonestPlane

\* The agent dies: what is left is the file, and a sing-box it will not read again.
LEMMA HonestCrash == ASSUME Types, Types', Honest, AgentCrash PROVE Honest'
  <1> SUFFICES ASSUME NEW u \in Users
               PROVE  /\ Charged(u)' + Owed(u)' <= real[u]
                      /\ disk' # Torn => UsedIn(disk', u) <= real[u]
    BY DEF Honest, UsedIn, AgentCrash
  <1>1. disk' # Torn => disk' = disk  BY DEF AgentCrash
  <1>2. UsedIn(users', u) = 0 /\ due'["tick"][u] = 0 /\ due'["regen"][u] = 0
    BY DEF AgentCrash, UsedIn, Thread, Zero
  <1>3. Collected(u)' = 0 /\ last'[u] = 0  BY DEF AgentCrash, Collected, Thread, Empty, Zero
  <1>4. Charged(u)' = 0  BY <1>2, <1>3 DEF Charged, delta, UsedIn
  <1>5. Owed(u)' = 0  BY DEF AgentCrash, Owed
  <1>6. real[u] \in Nat  BY Numbers
  <1> QED  BY <1>1, <1>4, <1>5, <1>6 DEF Honest

\* What a dead agent leaves behind: nothing in hand and no sing-box it will read.
DeadIsBare ==
    tick = "down" => /\ sb # "up" /\ sb # "backoff" /\ last = Zero /\ due = [t \in Thread |-> Zero]
                     /\ reading = [t \in Thread |-> Empty] /\ regen = "idle"

LEMMA DeadStep == ASSUME DeadIsBare, [Next]_vars PROVE DeadIsBare'
  <1> USE DEF store, acct, plane, bounds, DeadIsBare
  <1>1. CASE Change
    <2>1. UNCHANGED <<tick, sb, last, due, reading, regen>>
      BY <1>1 DEF Change, CreateUser, UpdateUser, DeleteUser
    <2> QED  BY <2>1
  <1>2. CASE Tick  BY <1>2 DEF Tick, TickCollect, TickDeltas, TickAdd, TickEnd
  <1>3. CASE Regenerate
    BY <1>3 DEF Regenerate, RegenLock, RegenCollect, RegenDeltas, RegenAdd, RegenAdded, RegenList,
                RegenWrite, RegenApply, RegenStart, RegenReset, RegenEnd, Alive
  <1>4. CASE (\E u \in Users : Traffic(u)) \/ SingboxCrash \/ MonitorRestart \/ Clock
    BY <1>4 DEF Traffic, SingboxCrash, MonitorRestart, Clock, Alive
  <1>5. CASE AgentCrash  BY <1>5 DEF AgentCrash
  <1>6. CASE Boot \/ UNCHANGED vars  BY <1>6 DEF Boot, vars
  <1> QED  BY <1>1, <1>2, <1>3, <1>4, <1>5, <1>6 DEF Next

\* The next agent goes on from the file.
LEMMA HonestBoot == ASSUME Types, Types', Honest, DeadIsBare, Boot PROVE Honest'
  <1> USE DEF plane
  <1> SUFFICES ASSUME NEW u \in Users
               PROVE  /\ Charged(u)' + Owed(u)' <= real[u]
                      /\ disk # Torn => UsedIn(disk, u) <= real[u]
    BY DEF Honest, UsedIn, Boot
  <1>1. real[u] \in Nat  BY Numbers
  <1>2. UsedIn(users', u) \in Nat /\ UsedIn(users', u) <= real[u]
    <2>1. UsedIn(users', u) \in Nat  BY NumbersNext
    <2>2. CASE disk = Torn  BY <1>1, <2>2 DEF Boot, UsedIn
    <2>3. CASE disk # Torn
      <3>1. users' = disk  BY <2>3 DEF Boot
      <3>2. UsedIn(disk, u) <= real[u]  BY <2>3 DEF Honest
      <3> QED  BY <2>1, <3>1, <3>2
    <2> QED  BY <2>1, <2>2, <2>3
  <1>3. due'["tick"][u] = 0 /\ due'["regen"][u] = 0  BY DEF Boot, DeadIsBare, Thread, Zero
  <1>4. Collected(u)' = 0 /\ last'[u] = 0
    BY DEF Boot, DeadIsBare, Collected, Thread, Empty, Zero
  <1>5. Charged(u)' = UsedIn(users', u)
    <2>1. Charged(u)' = UsedIn(users', u) + 0 + 0 + 0  BY <1>3, <1>4 DEF Charged, delta, UsedIn
    <2> QED  BY <1>2, <2>1
  <1>6. Owed(u)' = 0  BY DEF Boot, DeadIsBare, Owed
  <1> QED  BY <1>1, <1>2, <1>5, <1>6 DEF Honest

LEMMA HonestStep ==
    ASSUME Types, Types', HeldWhere, DeadIsBare, Honest, Separate, Separate', [Next]_vars
    PROVE  Honest'
  <1> USE DEF store, acct, plane, bounds
  <1>1. CASE Change  BY <1>1, HonestChange
  <1>2. CASE Tick
    <2>1. CASE TickCollect
      <3>1. /\ Collect("tick") /\ sb = "up" /\ UNCHANGED <<users, disk, counter, real, sb, regen>>
            /\ tick = "idle" /\ tick' = "read"
        BY <2>1 DEF TickCollect
      <3>2. regen \notin {"read", "start", "reset"}  BY <3>1 DEF Separate
      <3>3. reading["tick"] = Empty /\ reading["regen"] = Empty  BY <3>1, <3>2 DEF HeldWhere
      <3> QED  BY <3>1, <3>2, <3>3, HonestCollect DEF Thread
    <2>2. CASE TickDeltas
      <3>1. /\ Deltas("tick") /\ UNCHANGED <<users, disk, counter, real, sb, regen>>
            /\ tick = "read"
        BY <2>2 DEF TickDeltas
      <3>2. regen \notin {"read", "start", "reset"}  BY <3>1 DEF Separate
      <3>3. reading["regen"] = Empty /\ due["tick"] = Zero  BY <3>1, <3>2 DEF HeldWhere
      <3> QED  BY <3>1, <3>2, <3>3, HonestDeltas DEF Thread
    <2>3. CASE \E u \in Users : TickAdd(u)  BY <2>3, HonestAdd DEF TickAdd, Thread
    <2>4. CASE TickEnd  BY <2>4, HonestIdle DEF TickEnd
    <2> QED  BY <1>2, <2>1, <2>2, <2>3, <2>4 DEF Tick
  <1>3. CASE Regenerate
    <2>1. CASE RegenCollect /\ regen' = "read"
      <3>1. /\ Collect("regen") /\ sb = "up" /\ UNCHANGED <<users, disk, counter, real, sb, tick>>
            /\ regen = "account"
        BY <2>1 DEF RegenCollect
      <3>2. tick # "read"  BY <2>1, <3>1 DEF Separate
      <3>3. reading["tick"] = Empty /\ reading["regen"] = Empty  BY <3>1, <3>2 DEF HeldWhere
      <3> QED  BY <2>1, <3>1, <3>3, HonestCollect DEF Thread
    <2>2. CASE RegenCollect /\ regen' # "read"
      BY <2>2, HonestIdle DEF RegenCollect
    <2>3. CASE RegenDeltas
      <3>1. /\ Deltas("regen") /\ UNCHANGED <<users, disk, counter, real, sb>>
            /\ regen = "read" /\ regen' = "add"
        BY <2>3 DEF RegenDeltas
      <3>2. reading["tick"] = Empty /\ due["regen"] = Zero  BY <3>1 DEF HeldWhere, Separate
      <3> QED  BY <3>1, <3>2, HonestDeltas DEF Thread
    <2>4. CASE \E u \in Users : RegenAdd(u)  BY <2>4, HonestAdd DEF RegenAdd, Thread
    <2>5. CASE RegenLock \/ RegenAdded \/ RegenList \/ RegenWrite
      BY <2>5, HonestIdle DEF RegenLock, RegenAdded, RegenList, RegenWrite, RegenEnd
    <2>6. CASE RegenApply
      <3>1. sb' # "up" /\ UNCHANGED <<users, disk, last, reading, due, real>>
        BY <2>6 DEF RegenApply
      <3> QED  BY <3>1, HonestProcess
    <2>7. CASE RegenStart
      <3>1. CASE UNCHANGED <<sb, served, counter>>  BY <2>7, <3>1, HonestIdle DEF RegenStart
      <3>2. CASE Launch  BY <2>7, <3>2, HonestProcess DEF RegenStart, Launch
      <3> QED  BY <2>7, <3>1, <3>2 DEF RegenStart
    <2>8. CASE RegenReset  BY <2>8, HonestReset
    <2> QED  BY <1>3, <2>1, <2>2, <2>3, <2>4, <2>5, <2>6, <2>7, <2>8 DEF Regenerate
  <1>4. CASE \E u \in Users : Traffic(u)  BY <1>4, HonestTraffic
  <1>5. CASE SingboxCrash  BY <1>5, HonestProcess DEF SingboxCrash
  <1>6. CASE MonitorRestart  BY <1>6, HonestProcess DEF MonitorRestart, Launch
  <1>7. CASE Clock  BY <1>7, HonestIdle DEF Clock
  <1>8. CASE AgentCrash  BY <1>8, HonestCrash
  <1>9. CASE Boot  BY <1>9, HonestBoot
  <1>10. CASE UNCHANGED vars  BY <1>10, HonestIdle DEF vars
  <1> QED  BY <1>1, <1>2, <1>3, <1>4, <1>5, <1>6, <1>7, <1>8, <1>9, <1>10 DEF Next

\* A user is charged for traffic that did not flow only if the main loop's reading was
\* in hand together with regenerateConfig's, or between the restart of sing-box and
\* Meter.Reset: restarts of sing-box, of its monitor's making or not, failed saves and
\* crashes of the agent never charge twice by themselves.
THEOREM OverchargeNeedsOverlap == Spec /\ []Separate => []NeverOvercharged
  <1> DEFINE IInv == Types /\ HeldWhere /\ DeadIsBare /\ Honest
  <1>1. Init => IInv  BY InitTypes, InitHonest DEF Init, DeadIsBare
  <1>2. IInv /\ Separate /\ Separate' /\ [Next]_vars => IInv'
    BY TypesStep, HeldStep, DeadStep, HonestStep
  <1>3. IInv => NeverOvercharged
    <2> SUFFICES ASSUME IInv, NEW u \in Users, users[u] # NoUser PROVE users[u].used <= real[u]
      BY DEF NeverOvercharged
    <2>1. /\ UsedIn(users, u) \in Nat /\ due["tick"][u] \in Nat /\ due["regen"][u] \in Nat
          /\ Collected(u) \in Nat /\ last[u] \in Nat /\ Owed(u) \in Nat /\ real[u] \in Nat
      BY Numbers
    <2>2. delta(Collected(u), last[u]) \in Nat  BY <2>1, DeltaFacts
    <2>3. Charged(u) + Owed(u) <= real[u]  BY DEF Honest
    <2>4. UsedIn(users, u) <= real[u]  BY <2>1, <2>2, <2>3 DEF Charged
    <2> QED  BY <2>4 DEF UsedIn
  <1> HIDE DEF IInv
  <1> QED  BY <1>1, <1>2, <1>3, PTL DEF Spec

-----------------------------------------------------------------------------
(* Types, with the bounds of the model.                                    *)

\* What Types leaves out of TypeOK, in four parts.
Places ==
    /\ regen \in RegenState /\ tick \in TickState /\ sb \in SbState /\ born \subseteq Users

Bounded == now \in 0 .. MaxTime /\ changes \in 0 .. MaxChanges /\ faults \in 0 .. MaxFaults

Flags == damaged \in BOOLEAN /\ lost \in BOOLEAN

\* A process has counted no more than has flowed, and nobody reads, remembers or
\* charges at once more than can flow.
Metered ==
    \A u \in Users :
        /\ counter[u] <= real[u] /\ real[u] <= MaxTraffic /\ last[u] <= MaxTraffic
        /\ \A t \in Thread : /\ due[t][u] <= MaxTraffic
                             /\ u \in DOMAIN reading[t] => reading[t][u] <= MaxTraffic

\* One step and the positions of the threads.
LEMMA PlacesStep == ASSUME Places, [Next]_vars PROVE Places'
  <1> USE DEF Places, RegenState, TickState, SbState, store, acct, plane
  <1>1. CASE Change
    BY <1>1 DEF Change, CreateUser, UpdateUser, DeleteUser
  <1>2. CASE Tick
    BY <1>2 DEF Tick, TickCollect, TickDeltas, TickAdd, AddTraffic, TickEnd
  <1>3. CASE Regenerate
    BY <1>3 DEF Regenerate, RegenLock, RegenCollect, RegenDeltas, RegenAdd, AddTraffic, RegenAdded,
                RegenList, RegenWrite, RegenEnd, RegenApply, RegenStart, Launch, RegenReset
  <1>4. CASE (\E u \in Users : Traffic(u)) \/ SingboxCrash \/ MonitorRestart \/ Clock
    BY <1>4 DEF Traffic, SingboxCrash, MonitorRestart, Launch, Clock
  <1>5. CASE AgentCrash \/ Boot \/ UNCHANGED vars
    BY <1>5 DEF AgentCrash, Boot, vars
  <1> QED  BY <1>1, <1>2, <1>3, <1>4, <1>5 DEF Next

\* One step and the counters that bound the model.
LEMMA BoundedStep == ASSUME Bounded, [Next]_vars PROVE Bounded'
  <1> USE UsersConstants DEF Bounded
  <1>1. faults' = faults \/ Fault
    BY DEF Next, Change, CreateUser, UpdateUser, DeleteUser, SaveOk, SaveFails, Tick, TickCollect,
           TickDeltas, TickAdd, AddTraffic, TickEnd, Regenerate, RegenLock, RegenCollect,
           RegenDeltas, RegenAdd, RegenAdded, RegenList, RegenWrite, RegenApply, RegenStart,
           RegenReset, Traffic, SingboxCrash, MonitorRestart, Clock, AgentCrash, Boot, vars, bounds
  <1>2. UNCHANGED changes \/ (changes < MaxChanges /\ changes' = changes + 1)
    BY DEF Next, Change, CreateUser, UpdateUser, DeleteUser, Request, Tick, TickCollect,
           TickDeltas, TickAdd, TickEnd, Regenerate, RegenLock, RegenCollect,
           RegenDeltas, RegenAdd, RegenAdded, RegenList, RegenWrite, RegenApply, RegenStart,
           RegenReset, Traffic, SingboxCrash, MonitorRestart, Clock, AgentCrash, Boot, vars, bounds
  <1>3. UNCHANGED now \/ (now < MaxTime /\ now' = now + 1)
    BY DEF Next, Change, CreateUser, UpdateUser, DeleteUser, Tick, TickCollect,
           TickDeltas, TickAdd, TickEnd, Regenerate, RegenLock, RegenCollect,
           RegenDeltas, RegenAdd, RegenAdded, RegenList, RegenWrite, RegenApply, RegenStart,
           RegenReset, Traffic, SingboxCrash, MonitorRestart, Clock, AgentCrash, Boot, vars, bounds
  <1> QED  BY <1>1, <1>2, <1>3 DEF Fault

\* One step and the flags of the history.
LEMMA FlagsStep == ASSUME Flags, [Next]_vars PROVE Flags'
  <1> USE DEF Flags
  <1>1. CASE Change
    BY <1>1, Zenon DEF Change, CreateUser, UpdateUser, DeleteUser, SaveOk, SaveFails
  <1>2. CASE Tick
    BY <1>2, Zenon DEF Tick, TickCollect, TickDeltas, TickAdd, AddTraffic, SaveOk, SaveFails,
                       TickEnd, store
  <1>3. CASE Regenerate
    BY <1>3, Zenon DEF Regenerate, RegenLock, RegenCollect, RegenDeltas, RegenAdd, AddTraffic,
                       SaveOk, SaveFails, RegenAdded, RegenList, RegenWrite, RegenApply,
                       RegenStart, RegenReset, store
  <1>4. CASE (\E u \in Users : Traffic(u)) \/ SingboxCrash \/ MonitorRestart \/ Clock
    BY <1>4, Zenon DEF Traffic, SingboxCrash, MonitorRestart, Clock, store
  <1>5. CASE AgentCrash \/ Boot \/ UNCHANGED vars
    BY <1>5 DEF AgentCrash, Boot, vars, store
  <1> QED  BY <1>1, <1>2, <1>3, <1>4, <1>5 DEF Next

\* The steps of accountLocalTraffic, whichever thread takes them: a delta is at most
\* the reading it comes from.
LEMMA MeteredCollect ==
    ASSUME Types, Metered, NEW t \in Thread, Collect(t), UNCHANGED <<counter, real>>
    PROVE  Metered'
  BY UsersConstants DEF Types, Metered, Collect

LEMMA MeteredDeltas ==
    ASSUME Types, Metered, NEW t \in Thread, Deltas(t), UNCHANGED <<counter, real>>
    PROVE  Metered'
  <1> DEFINE d == [u \in Users |-> IF u \in DOMAIN reading[t]
                                   THEN delta(reading[t][u], last[u]) ELSE 0]
  <1>1. DOMAIN reading[t] \subseteq Users /\ \A u \in DOMAIN reading[t] : reading[t][u] \in Nat
    BY ReadingOut DEF Types
  <1>2. \A u \in Users : d[u] <= MaxTraffic
    BY <1>1, UsersConstants DEF Types, Metered, delta
  <1>3. due' = [due EXCEPT ![t] = d] /\ reading' = [reading EXCEPT ![t] = Empty]
    BY DEF Deltas
  <1>4. \A u \in Users : last'[u] <= MaxTraffic
    BY <1>1 DEF Deltas, Metered
  <1>5. DOMAIN Empty = {}
    BY DEF Empty
  <1>6. ASSUME NEW s \in Thread, NEW u \in Users
        PROVE  /\ due'[s][u] <= MaxTraffic
               /\ u \in DOMAIN reading'[s] => reading'[s][u] <= MaxTraffic
    <2> HIDE DEF d
    <2> QED  BY <1>2, <1>3, <1>5 DEF Types, Metered
  <1> QED  BY <1>4, <1>6 DEF Metered

LEMMA MeteredAdd ==
    ASSUME Types, Metered, NEW t \in Thread, NEW u \in Users, AddTraffic(t, u),
           UNCHANGED <<counter, real>>
    PROVE  Metered'
  BY UsersConstants DEF Types, Metered, AddTraffic

\* Every other step leaves the readings alone and clears, at most, a counter or what
\* the Meter remembers.
LEMMA MeteredRest ==
    ASSUME Types, Metered, UNCHANGED <<reading, due, real>>,
           last' \in {last, Zero}, counter' \in {counter, Zero}
    PROVE  Metered'
  BY UsersConstants DEF Types, Metered, Zero

LEMMA MeteredStep == ASSUME Types, Metered, [Next]_vars PROVE Metered'
  <1> USE DEF store, acct, plane
  <1>1. CASE TickCollect \/ RegenCollect
    BY <1>1, MeteredCollect, MeteredRest DEF TickCollect, RegenCollect, Thread
  <1>2. CASE TickDeltas \/ RegenDeltas
    BY <1>2, MeteredDeltas DEF TickDeltas, RegenDeltas, Thread
  <1>3. CASE \E u \in Users : TickAdd(u) \/ RegenAdd(u)
    BY <1>3, MeteredAdd DEF TickAdd, RegenAdd, Thread
  <1>4. ASSUME NEW u \in Users, Traffic(u)
        PROVE  Metered'
    BY <1>4, UsersConstants DEF Traffic, Types, Metered
  <1>5. CASE Change \/ Clock \/ Boot \/ UNCHANGED vars
    BY <1>5, MeteredRest DEF Change, CreateUser, UpdateUser, DeleteUser, Clock, Boot, vars
  <1>6. CASE TickEnd \/ RegenLock \/ RegenAdded \/ RegenList \/ RegenWrite \/ RegenReset
    BY <1>6, MeteredRest DEF TickEnd, RegenLock, RegenAdded, RegenList, RegenWrite, RegenReset
  <1>7. CASE RegenApply \/ RegenStart \/ SingboxCrash \/ MonitorRestart
    BY <1>7, MeteredRest DEF RegenApply, RegenStart, Launch, SingboxCrash, MonitorRestart
  <1>8. CASE AgentCrash
    <2>1. /\ reading' = [t \in Thread |-> Empty] /\ due' = [t \in Thread |-> Zero] /\ last' = Zero
          /\ counter' \in {counter, Zero} /\ UNCHANGED real
      BY <1>8 DEF AgentCrash
    <2> QED  BY <2>1, UsersConstants DEF Types, Metered, Zero, Empty
  <1> QED
    BY <1>1, <1>2, <1>3, <1>4, <1>5, <1>6, <1>7, <1>8 DEF Next, Tick, Regenerate

\* The numbers of a well typed state are within the bound.
LEMMA InBounds ==
    ASSUME Types, Metered
    PROVE  /\ last \in [Users -> 0 .. MaxTraffic]
           /\ counter \in [Users -> 0 .. MaxTraffic] /\ real \in [Users -> 0 .. MaxTraffic]
           /\ due \in [Thread -> [Users -> 0 .. MaxTraffic]]
           /\ reading \in [Thread -> UNION {[S -> 0 .. MaxTraffic] : S \in SUBSET Users}]
  <1>1. /\ last \in [Users -> 0 .. MaxTraffic]
        /\ counter \in [Users -> 0 .. MaxTraffic] /\ real \in [Users -> 0 .. MaxTraffic]
    BY UsersConstants DEF Types, Metered
  <1>2. due \in [Thread -> [Users -> 0 .. MaxTraffic]]
    <2>1. ASSUME NEW t \in Thread PROVE due[t] \in [Users -> 0 .. MaxTraffic]
      BY UsersConstants DEF Types, Metered
    <2> QED  BY <2>1 DEF Types
  <1>3. reading \in [Thread -> UNION {[S -> 0 .. MaxTraffic] : S \in SUBSET Users}]
    <2>1. ASSUME NEW t \in Thread
          PROVE  reading[t] \in UNION {[S -> 0 .. MaxTraffic] : S \in SUBSET Users}
      <3>1. PICK S \in SUBSET Users : reading[t] \in [S -> Nat]
        BY DEF Types, Readings
      <3>2. \A u \in S : reading[t][u] \in 0 .. MaxTraffic
        BY <3>1, UsersConstants DEF Metered
      <3>3. reading[t] \in [S -> 0 .. MaxTraffic]
        BY <3>1, <3>2
      <3> QED  BY <3>3
    <2> QED  BY <2>1 DEF Types
  <1> QED  BY <1>1, <1>2, <1>3

\* TypeOK: every reachable state of the users, the accounting and the data plane is
\* well typed.  That what is still to be charged is never negative and within the
\* bound rests on Meter.Deltas taking a reading below the last one for that of a new
\* process.
THEOREM TypeCorrect == Spec => []TypeOK
  <1>1. Init => Places /\ Bounded /\ Flags /\ Metered
    <2>1. Init => Places /\ Bounded
      BY UsersConstants DEF Init, Places, RegenState, TickState, SbState, Bounded
    <2>2. Init => Flags
      BY Zenon DEF Init, Flags
    <2>3. Init => Metered
      BY UsersConstants DEF Init, Metered, Zero, Empty
    <2> QED  BY <2>1, <2>2, <2>3
  <1>2. Types /\ Places /\ Bounded /\ Flags /\ Metered => TypeOK
    BY InBounds, Zenon DEF Types, Places, Bounded, Flags, TypeOK
  <1>3. Types /\ [Next]_vars => Types'
    BY TypesStep
  <1>4. Types /\ Places /\ Bounded /\ Flags /\ Metered /\ [Next]_vars
        => Places' /\ Bounded' /\ Flags' /\ Metered'
    BY PlacesStep, BoundedStep, FlagsStep, MeteredStep
  <1> QED  BY <1>1, <1>2, <1>3, <1>4, InitTypes, PTL DEF Spec

=============================================================================
