-------------------------- MODULE DeviceKeysProofs --------------------------
(***************************************************************************)
(* Proofs about DeviceKeys, for any set of keys and any number of          *)
(* overlapping, failing and killed commands: the list never becomes empty, *)
(* and what a command that ran alone has promised holds.                   *)
(***************************************************************************)
EXTENDS DeviceKeys, TLAPS

-----------------------------------------------------------------------------
(* The list never becomes empty.                                           *)

\* What the steps need to know of the variables they look at.
Shape ==
    /\ data \in [Inodes -> Content]
    /\ file \in Inodes \cup {None} /\ tmp \in Inodes \cup {None}
    /\ pc \in [Procs -> {"off", "read", "open", "write", "rename"}]
    /\ cmd \in [Procs -> {None} \cup Command] /\ fd \in [Procs -> Inodes \cup {None}]
    /\ list \in [Procs -> SUBSET Keys]

\* A command that is at work has been told what to do, and one that writes has a
\* file to write to.
AtWork ==
    \A p \in Procs : /\ pc[p] # "off" => cmd[p] \in Command
                     /\ pc[p] = "write" => fd[p] \in Inodes

\* No file of the directory holds the empty list: not the list itself, not the
\* temporary file, and not a file that lost its name while a command has it open.
NoEmptyFile == \A i \in Inodes : data[i] # List({})

\* No command is about to write the empty list.
NoEmptyWrite == \A p \in Procs : pc[p] \in {"open", "write"} => list[p] # {}

IInv == Shape /\ AtWork /\ NoEmptyFile /\ NoEmptyWrite

\* The three contents are different, and a list determines its keys.
LEMMA Contents ==
    /\ Blank \in Content /\ Torn \in Content
    /\ \A K \in SUBSET Keys : List(K) \in Content
    /\ Blank # List({}) /\ Torn # List({})
    /\ \A K : K # {} => List(K) # List({})
BY DEF Blank, Torn, List, Content

\* The list a reader gets is a set of keys.
LEMMA ListedKeys == Shape => listed \subseteq Keys
BY DEF Shape, listed, Content

\* A command that ends leaves the others alone.
LEMMA EndKeeps ==
    ASSUME IInv, NEW p \in Procs, End(p)
    PROVE  /\ pc' \in [Procs -> {"off", "read", "open", "write", "rename"}]
           /\ cmd' \in [Procs -> {None} \cup Command] /\ fd' \in [Procs -> Inodes \cup {None}]
           /\ list' \in [Procs -> SUBSET Keys]
           /\ AtWork' /\ NoEmptyWrite'
BY DEF IInv, Shape, AtWork, NoEmptyWrite, End

\* A machine without a list is no exception.
LEMMA InitInv == Init => IInv
BY Contents DEF Init, IInv, Shape, AtWork, NoEmptyFile, NoEmptyWrite

\* A reset is about to write one key.
LEMMA StartKeeps ==
    ASSUME IInv, NEW p \in Procs, NEW c \in Command, Start(p, c)
    PROVE  IInv'
<1>1. c.key \in Keys
  BY DEF Command
<1> QED
  BY <1>1 DEF IInv, Shape, AtWork, NoEmptyFile, NoEmptyWrite, Start, disk

\* What Add and Remove decide to write is not empty.
LEMMA ReadKeeps ==
    ASSUME IInv, NEW p \in Procs, Read(p)
    PROVE  IInv'
<1> DEFINE k == cmd[p].key
           Goes(keys) == /\ list' = [list EXCEPT ![p] = keys]
                         /\ pc' = [pc EXCEPT ![p] = "open"]
                         /\ UNCHANGED <<cmd, fd, commands, history>>
<1>1. k \in Keys /\ UNCHANGED <<data, file, tmp>> /\ pc[p] = "read"
  BY DEF IInv, AtWork, Read, disk, Command
<1>2. CASE End(p)
  BY <1>1, <1>2, EndKeeps DEF IInv, Shape, NoEmptyFile
<1>3. ASSUME NEW keys \in SUBSET Keys, keys # {}, Goes(keys)
      PROVE  IInv'
  BY <1>1, <1>3 DEF IInv, Shape, AtWork, NoEmptyFile, NoEmptyWrite
<1>4. End(p) \/ Goes(listed \cup {k}) \/ (Goes(listed \ {k}) /\ ~Refuses(k, listed))
  BY DEF Read, Fails, Succeeds
<1>5. listed \subseteq Keys
  BY ListedKeys DEF IInv
<1>6. ~Refuses(k, listed) => listed \ {k} # {}
  BY DEF Refuses
<1> HIDE DEF k, Goes
<1> QED
  BY <1>1, <1>2, <1>3, <1>4, <1>5, <1>6

\* A truncated file is not an empty list: it is not even readable.
LEMMA OpenKeeps ==
    ASSUME IInv, NEW p \in Procs, Open(p)
    PROVE  IInv'
<1>1. CASE End(p) /\ UNCHANGED disk
  BY <1>1, EndKeeps DEF IInv, Shape, NoEmptyFile, disk
<1>2. ASSUME NEW i \in Inodes, tmp' = i, data' = [data EXCEPT ![i] = Blank],
             fd' = [fd EXCEPT ![p] = i], pc' = [pc EXCEPT ![p] = "write"],
             UNCHANGED <<file, cmd, list>>, pc[p] = "open"
      PROVE  IInv'
  BY <1>2, Contents DEF IInv, Shape, AtWork, NoEmptyFile, NoEmptyWrite
<1>3. ASSUME NEW i \in (IF tmp = None THEN Free ELSE {tmp})
      PROVE  i \in Inodes
  BY DEF IInv, Shape, Free
<1> QED
  BY <1>1, <1>2, <1>3 DEF Open, Fails

\* What is written is the list decided on, or no list.
LEMMA WriteKeeps ==
    ASSUME IInv, NEW p \in Procs, Write(p)
    PROVE  IInv'
<1>1. fd[p] \in Inodes /\ list[p] \in SUBSET Keys /\ list[p] # {} /\ pc[p] = "write"
      /\ UNCHANGED <<file, tmp>>
  BY DEF IInv, Shape, AtWork, NoEmptyWrite, Write
<1>2. ASSUME NEW c \in Content, c # List({}), data' = [data EXCEPT ![fd[p]] = c]
      PROVE  data' \in [Inodes -> Content] /\ NoEmptyFile'
  BY <1>1, <1>2 DEF IInv, Shape, NoEmptyFile
<1>3. CASE data' = [data EXCEPT ![fd[p]] = Torn] /\ End(p)
  BY <1>1, <1>2, <1>3, Contents, EndKeeps DEF IInv, Shape
<1>4. CASE /\ \E c \in Written(data[fd[p]], list[p]) : data' = [data EXCEPT ![fd[p]] = c]
           /\ pc' = [pc EXCEPT ![p] = "rename"] /\ fd' = [fd EXCEPT ![p] = None]
           /\ UNCHANGED <<cmd, list>>
  <2>1. PICK c \in Written(data[fd[p]], list[p]) : data' = [data EXCEPT ![fd[p]] = c]
    BY <1>4
  <2>2. c \in {List(list[p]), Torn}
    BY DEF Written
  <2>3. data' \in [Inodes -> Content] /\ NoEmptyFile'
    BY <1>1, <1>2, <2>1, <2>2, Contents
  <2> QED
    BY <1>1, <1>4, <2>3 DEF IInv, Shape, AtWork, NoEmptyWrite
<1> QED
  BY <1>3, <1>4 DEF Write, Fails

\* A rename changes no content.
LEMMA RenameKeeps ==
    ASSUME IInv, NEW p \in Procs, Rename(p)
    PROVE  IInv'
<1>1. End(p) /\ UNCHANGED data
  BY DEF Rename, Fails, Succeeds, disk
<1>2. file' \in Inodes \cup {None} /\ tmp' \in Inodes \cup {None}
  BY DEF IInv, Shape, Rename, disk
<1> QED
  BY <1>1, <1>2, EndKeeps DEF IInv, Shape, NoEmptyFile

\* Half a write is no list.
LEMMA KillKeeps ==
    ASSUME IInv, NEW p \in Procs, Kill(p)
    PROVE  IInv'
<1>1. End(p) /\ UNCHANGED <<file, tmp>>
  BY DEF Kill, Fails
<1>2. data' \in [Inodes -> Content] /\ NoEmptyFile'
  BY Contents DEF IInv, Shape, AtWork, NoEmptyFile, Kill
<1> QED
  BY <1>1, <1>2, EndKeeps DEF IInv, Shape

\* One step of any command.
LEMMA NextKeeps == IInv /\ [Next]_vars => IInv'
<1>1. CASE UNCHANGED vars
  BY <1>1 DEF vars, disk, process, IInv, Shape, AtWork, NoEmptyFile, NoEmptyWrite
<1>2. ASSUME IInv, NEW p \in Procs,
             \/ \E c \in Command : Start(p, c)
             \/ Read(p) \/ Open(p) \/ Write(p) \/ Rename(p) \/ Kill(p)
      PROVE  IInv'
  BY <1>2, StartKeeps, ReadKeeps, OpenKeeps, WriteKeeps, RenameKeeps, KillKeeps
<1> QED
  BY <1>1, <1>2 DEF Next

\* Remove's check against an empty list holds for all commands together, although
\* no lock is held between its check and its write: every list that is written
\* anywhere holds the key it was written for, or one that was left over.
THEOREM ListNeverEmptied == Spec => []NeverEmptied
<1>1. IInv => NeverEmptied
  BY DEF IInv, Shape, NoEmptyFile, NeverEmptied
<1> QED
  BY <1>1, InitInv, NextKeeps, PTL DEF Spec

-----------------------------------------------------------------------------
(* What a command that ran alone promised holds.                           *)

\* The promises, of a set of keys and of what a file holds.
Honours(K) == \A k \in Keys : /\ promised[k] = "out" => k \notin K
                              /\ promised[k] = "in" => k \in K

HonoursFile(i) == data[i].kind = "list" => Honours(data[i].keys)

GhostTypes ==
    /\ alone \subseteq Procs /\ raced \in BOOLEAN
    /\ promised \in [Keys -> {"nothing", "in", "out"}]

\* The list itself keeps the promises; without a list no key was promised entry.
ListHonours ==
    /\ file # None => HonoursFile(file)
    /\ file = None => \A k \in Keys : promised[k] # "in"

\* So does all that may become the list: what commands are about to write, the
\* files they have open, and the temporary file as soon as a command that will
\* rename it has opened it.
PendingHonours ==
    /\ \A p \in Procs : pc[p] \in {"open", "write", "rename"} => Honours(list[p])
    /\ \A p \in Procs : pc[p] = "write" => HonoursFile(fd[p])
    /\ \A p \in Procs : pc[p] \in {"write", "rename"} /\ tmp # None => HonoursFile(tmp)

\* Nothing is promised of a key while a command about it is at work.
NotPromised ==
    \A p \in Procs : pc[p] # "off" => \A k \in Concerns(cmd[p]) : promised[k] = "nothing"

\* A command nobody overlapped is the only one, its temporary file is its own, and
\* its list is what it was asked for.
AloneOwns ==
    \A p \in alone :
        /\ pc[p] # "off" /\ \A q \in Procs : q # p => pc[q] = "off"
        /\ pc[p] = "write" => tmp = fd[p] /\ data[fd[p]] = Blank
        /\ pc[p] = "rename" => tmp # None /\ data[tmp] = List(list[p])
        /\ pc[p] \in {"open", "write", "rename"} =>
             \A k \in Concerns(cmd[p]) : Promise(cmd[p], k) = "in" <=> k \in list[p]

\* Commands that never overlapped work alone, and leave a readable list.
NeverRaced ==
    ~raced => /\ \A p \in Procs : pc[p] # "off" => p \in alone
              /\ Readable

\* The temporary file is not the list.
TwoFiles == tmp # None => tmp # file

PInv ==
    /\ GhostTypes /\ ListHonours /\ PendingHonours /\ NotPromised /\ AloneOwns
    /\ NeverRaced /\ TwoFiles

\* The initial state promises nothing.
LEMMA InitPromises == Init => PInv
<1> SUFFICES ASSUME Init
             PROVE  PInv
  OBVIOUS
<1>1. /\ file = None /\ tmp = None /\ alone = {} /\ raced = FALSE
      /\ \A p \in Procs : pc[p] = "off"
      /\ promised \in [Keys -> {"nothing", "in", "out"}]
      /\ \A k \in Keys : promised[k] = "nothing"
  BY DEF Init
<1>2. GhostTypes /\ TwoFiles
  BY <1>1 DEF GhostTypes, TwoFiles
<1>3. ListHonours
  BY <1>1 DEF ListHonours
<1>4. PendingHonours
  BY <1>1 DEF PendingHonours
<1>5. NotPromised
  BY <1>1 DEF NotPromised
<1>6. AloneOwns
  BY <1>1 DEF AloneOwns
<1>7. NeverRaced
  BY <1>1 DEF NeverRaced, Readable
<1> QED
  BY <1>2, <1>3, <1>4, <1>5, <1>6, <1>7 DEF PInv

\* A command that fails, perhaps in the middle of its write, breaks no promise.
LEMMA FailKeeps ==
    ASSUME IInv, PInv, NEW p \in Procs, pc[p] # "off", Fails(p), UNCHANGED <<file, tmp>>,
           data' = data \/ (pc[p] = "write" /\ data' = [data EXCEPT ![fd[p]] = Torn])
    PROVE  PInv'
<1>1. /\ \A q \in Procs : q # p => pc'[q] = pc[q] /\ list'[q] = list[q] /\ fd'[q] = fd[q]
                                   /\ cmd'[q] = cmd[q]
      /\ pc'[p] = "off" /\ alone' = alone \ {p} /\ UNCHANGED <<raced, promised>>
  BY DEF IInv, Shape, Fails, End
<1>2. \A i \in Inodes : data'[i] = data[i] \/ data'[i] = Torn
  BY DEF IInv, Shape, AtWork
<1>3. \A i \in Inodes : HonoursFile(i) => HonoursFile(i)'
  BY <1>1, <1>2 DEF HonoursFile, Honours, Torn
<1>4. \A q \in Procs : q # p /\ Honours(list[q]) => Honours(list[q])'
  BY <1>1 DEF Honours
<1>5. GhostTypes' /\ TwoFiles'
  BY <1>1 DEF PInv, GhostTypes, TwoFiles
<1>6. ListHonours'
  BY <1>1, <1>3 DEF PInv, ListHonours, IInv, Shape
<1>7. PendingHonours'
  <2>1. \A q \in Procs : pc'[q] \in {"open", "write", "rename"} => Honours(list[q])'
    BY <1>1, <1>4 DEF PInv, PendingHonours
  <2>2. ASSUME NEW q \in Procs, pc'[q] = "write"
        PROVE  HonoursFile(fd[q])'
    <3>1. q # p /\ HonoursFile(fd[q]) /\ fd[q] \in Inodes /\ fd'[q] = fd[q]
      BY <1>1, <2>2 DEF PInv, PendingHonours, IInv, AtWork
    <3> QED
      BY <1>3, <3>1 DEF HonoursFile, Honours
  <2>3. ASSUME NEW q \in Procs, pc'[q] \in {"write", "rename"}, tmp # None
        PROVE  HonoursFile(tmp)'
    <3>1. q # p /\ HonoursFile(tmp) /\ tmp \in Inodes /\ tmp' = tmp
      BY <1>1, <2>3 DEF PInv, PendingHonours, IInv, Shape
    <3> QED
      BY <1>3, <3>1 DEF HonoursFile, Honours
  <2> QED
    BY <2>1, <2>2, <2>3 DEF PendingHonours
<1>8. NotPromised'
  BY <1>1 DEF PInv, NotPromised
<1>9. AloneOwns'
  BY <1>1 DEF PInv, AloneOwns, GhostTypes
<1>10. NeverRaced'
  <2> SUFFICES ASSUME ~raced
               PROVE  (\A q \in Procs : pc'[q] # "off" => q \in alone') /\ Readable'
    BY <1>1 DEF NeverRaced
  <2>1. \A q \in Procs : pc'[q] # "off" => q \in alone'
    BY <1>1 DEF PInv, NeverRaced
  <2>2. data' = data \/ (file # None => data'[file] = data[file])
    BY DEF PInv, NeverRaced, AloneOwns, TwoFiles, IInv, Shape, AtWork
  <2> QED
    BY <2>1, <2>2 DEF PInv, NeverRaced, Readable
<1> QED
  BY <1>5, <1>6, <1>7, <1>8, <1>9, <1>10 DEF PInv

\* When a command succeeds the list it leaves, new or old, keeps the promises; if
\* the command was alone it also keeps the command's own ones.
LEMMA SuccessKeeps ==
    ASSUME IInv, PInv, NEW p \in Procs, pc[p] # "off", Succeeds(p), UNCHANGED data,
           file' \in Inodes, HonoursFile(file'),
           tmp' # None => tmp' = tmp /\ tmp' # file',
           p \in alone => /\ data[file'].kind = "list"
                          /\ \A k \in Concerns(cmd[p]) :
                                 Promise(cmd[p], k) = "in" <=> k \in data[file'].keys
    PROVE  PInv'
<1>1. /\ \A q \in Procs : q # p => pc'[q] = pc[q] /\ list'[q] = list[q] /\ fd'[q] = fd[q]
                                   /\ cmd'[q] = cmd[q]
      /\ pc'[p] = "off" /\ alone' = alone \ {p} /\ UNCHANGED raced
  BY DEF IInv, Shape, Succeeds, End
<1>2. cmd[p] \in Command
  BY DEF IInv, AtWork
<1>3. \A k \in Keys : Promise(cmd[p], k) \in {"in", "out"}
  BY DEF Promise
<1>4. file' # None
  BY KeysConstants
<1>5. GhostTypes' /\ TwoFiles'
  BY <1>1, <1>3 DEF PInv, GhostTypes, TwoFiles, Succeeds
<1>6. CASE p \in alone
  <2>1. \A q \in Procs : pc'[q] = "off"
    BY <1>1, <1>6 DEF PInv, AloneOwns
  <2>2. alone' = {}
    BY <1>1, <1>6 DEF PInv, AloneOwns, GhostTypes
  <2>3. \A k \in Keys : promised'[k] = IF k \in Concerns(cmd[p]) THEN Promise(cmd[p], k)
                                                                ELSE promised[k]
    BY <1>6 DEF Succeeds
  <2>4. Honours(data[file].keys)'
    BY <1>3, <1>6, <2>3 DEF Honours, HonoursFile
  <2>5. ListHonours'
    BY <1>4, <2>4 DEF ListHonours, HonoursFile
  <2>6. PendingHonours' /\ NotPromised' /\ AloneOwns'
    BY <2>1, <2>2 DEF PendingHonours, NotPromised, AloneOwns
  <2>7. NeverRaced'
    BY <1>4, <1>6, <2>1 DEF NeverRaced, Readable
  <2> QED
    BY <1>5, <2>5, <2>6, <2>7 DEF PInv
<1>7. CASE p \notin alone
  <2>1. UNCHANGED promised
    BY <1>7 DEF Succeeds
  <2>3. ListHonours'
    BY <1>4, <2>1 DEF ListHonours, HonoursFile, Honours
  <2>4. PendingHonours'
    BY <1>1, <2>1 DEF PInv, PendingHonours, HonoursFile, Honours
  <2>5. NotPromised'
    BY <1>1, <2>1 DEF PInv, NotPromised
  <2>6. AloneOwns'
    BY <1>1, <1>7 DEF PInv, AloneOwns, GhostTypes
  <2>7. NeverRaced'
    BY <1>1, <1>7 DEF PInv, NeverRaced
  <2> QED
    BY <1>5, <2>3, <2>4, <2>5, <2>6, <2>7 DEF PInv
<1> QED
  BY <1>6, <1>7

\* A command that begins takes back the promises about its keys.
LEMMA StartPromises ==
    ASSUME IInv, PInv, NEW p \in Procs, NEW c \in Command, Start(p, c)
    PROVE  PInv'
<1>1. /\ pc[p] = "off"
      /\ \A q \in Procs : q # p => pc'[q] = pc[q] /\ list'[q] = list[q] /\ cmd'[q] = cmd[q]
      /\ pc'[p] = (IF c.op = "reset" THEN "open" ELSE "read") /\ cmd'[p] = c
      /\ list'[p] = (IF c.op = "reset" THEN {c.key} ELSE {})
      /\ UNCHANGED <<data, file, tmp, fd>>
      /\ alone' = (IF Running = {} THEN {p} ELSE {}) /\ raced' = (raced \/ Running # {})
  BY DEF IInv, Shape, Start, disk
<1>2. \A k \in Keys : promised'[k] = IF k \in Concerns(c) THEN "nothing" ELSE promised[k]
  BY DEF Start
<1>4. \A i \in Inodes : HonoursFile(i) => HonoursFile(i)'
  BY <1>1, <1>2 DEF HonoursFile, Honours
<1>5. GhostTypes' /\ TwoFiles'
  <2>1. promised' \in [Keys -> {"nothing", "in", "out"}]
    BY DEF Start, PInv, GhostTypes
  <2> QED
    BY <1>1, <2>1 DEF PInv, GhostTypes, TwoFiles
<1>6. ListHonours'
  BY <1>1, <1>2, <1>4 DEF PInv, ListHonours, IInv, Shape
<1>7. PendingHonours'
  <2>1. ASSUME NEW q \in Procs, pc'[q] \in {"open", "write", "rename"}
        PROVE  Honours(list[q])'
    <3>1. CASE q = p
      BY <1>1, <1>2, <2>1, <3>1 DEF Honours, Concerns
    <3>2. CASE q # p
      BY <1>1, <1>2, <2>1, <3>2 DEF Honours, PInv, PendingHonours
    <3> QED
      BY <3>1, <3>2
  <2>2. \A q \in Procs : pc'[q] = "write" => HonoursFile(fd[q])'
    BY <1>1, <1>2 DEF HonoursFile, Honours, PInv, PendingHonours
  <2>3. \A q \in Procs : pc'[q] \in {"write", "rename"} /\ tmp # None => HonoursFile(tmp)'
    BY <1>1, <1>2 DEF HonoursFile, Honours, PInv, PendingHonours
  <2> QED
    BY <1>1, <2>1, <2>2, <2>3 DEF PendingHonours
<1>8. NotPromised'
  <2>1. Concerns(c) \subseteq Keys
    BY DEF Concerns, Command
  <2>2. \A q \in Procs : pc[q] # "off" => Concerns(cmd[q]) \subseteq Keys
    BY DEF Concerns, Command, IInv, AtWork
  <2> QED
    BY <1>1, <1>2, <2>1, <2>2 DEF PInv, NotPromised
<1>9. AloneOwns'
  <2> SUFFICES ASSUME NEW q \in alone'
               PROVE  /\ pc'[q] # "off" /\ \A r \in Procs : r # q => pc'[r] = "off"
                      /\ pc'[q] \in {"open", "read"}
                      /\ pc'[q] = "open" => \A k \in Concerns(cmd'[q]) :
                                               Promise(cmd'[q], k) = "in" <=> k \in list'[q]
    BY <1>1 DEF AloneOwns
  <2>1. q = p /\ Running = {}
    BY <1>1
  <2> QED
    BY <1>1, <2>1 DEF Running, Promise
<1>10. NeverRaced'
  BY <1>1 DEF PInv, NeverRaced, Running, Readable
<1> QED
  BY <1>5, <1>6, <1>7, <1>8, <1>9, <1>10 DEF PInv

\* Add and Remove change the list they read in the one key they are about.
LEMMA ReadPromises ==
    ASSUME IInv, PInv, NEW p \in Procs, Read(p)
    PROVE  PInv'
<1> DEFINE k == cmd[p].key
           Goes(keys) == /\ list' = [list EXCEPT ![p] = keys]
                         /\ pc' = [pc EXCEPT ![p] = "open"]
                         /\ UNCHANGED <<cmd, fd, commands, history>>
<1>1. /\ cmd[p] \in Command /\ k \in Keys /\ UNCHANGED <<data, file, tmp>> /\ pc[p] = "read"
      /\ cmd[p].op # "reset" => Concerns(cmd[p]) = {k}
  BY DEF IInv, AtWork, Read, disk, Command, Concerns
<1>2. CASE Fails(p)
  BY <1>1, <1>2, FailKeeps
<1>3. CASE Readable /\ cmd[p].op = "add" /\ k \in listed /\ Succeeds(p)
  <2>1. file \in Inodes /\ data[file].kind = "list" /\ k \in data[file].keys
    BY <1>3 DEF Readable, listed, IInv, Shape
  <2>2. \A j \in Concerns(cmd[p]) : Promise(cmd[p], j) = "in" <=> j \in data[file].keys
    BY <1>1, <1>3, <2>1 DEF Promise
  <2>3. HonoursFile(file) /\ (tmp # None => tmp # file)
    BY <2>1, KeysConstants DEF PInv, ListHonours, TwoFiles
  <2> QED
    BY <1>1, <1>3, <2>1, <2>2, <2>3, SuccessKeeps
<1>4. ASSUME NEW keys \in SUBSET Keys, Goes(keys), Readable, cmd[p].op # "reset",
             \A j \in Keys \ {k} : j \in keys <=> j \in listed,
             Promise(cmd[p], k) = "in" <=> k \in keys
      PROVE  PInv'
  <2>1. /\ \A q \in Procs : q # p => pc'[q] = pc[q] /\ list'[q] = list[q]
        /\ pc'[p] = "open" /\ list'[p] = keys
        /\ UNCHANGED <<data, file, tmp, cmd, fd, alone, raced, promised>>
    BY <1>1, <1>4 DEF IInv, Shape, history
  <2>2. Honours(listed)
    BY <1>4 DEF PInv, ListHonours, HonoursFile, Honours, Readable, listed
  <2>3. promised[k] = "nothing"
    BY <1>1, <1>4 DEF PInv, NotPromised
  <2>4. Honours(keys)
    BY <1>4, <2>2, <2>3 DEF Honours
  <2>5. \A q \in Procs : pc'[q] \in {"open", "write", "rename"} => Honours(list[q])'
    BY <2>1, <2>4 DEF Honours, PInv, PendingHonours
  <2>6. PendingHonours'
    BY <2>1, <2>5 DEF PInv, PendingHonours, HonoursFile, Honours
  <2>7. AloneOwns'
    BY <1>1, <1>4, <2>1 DEF PInv, AloneOwns, GhostTypes
  <2>8. NotPromised' /\ NeverRaced'
    BY <1>1, <2>1 DEF PInv, NotPromised, NeverRaced, Readable
  <2>9. GhostTypes' /\ ListHonours' /\ TwoFiles'
    BY <2>1 DEF PInv, GhostTypes, ListHonours, TwoFiles, HonoursFile, Honours
  <2> QED
    BY <2>6, <2>7, <2>8, <2>9 DEF PInv
<1>5. listed \subseteq Keys
  BY ListedKeys DEF IInv
<1>6. CASE Readable /\ cmd[p].op = "add" /\ Goes(listed \cup {k})
  <2>1. Promise(cmd[p], k) = "in"
    BY <1>6 DEF Promise
  <2> HIDE DEF k, Goes
  <2> QED
    BY <1>1, <1>4, <1>5, <1>6, <2>1
<1>7. CASE Readable /\ cmd[p].op = "rm" /\ Goes(listed \ {k})
  <2>1. Promise(cmd[p], k) = "out"
    BY <1>7 DEF Promise
  <2> HIDE DEF k, Goes
  <2> QED
    BY <1>1, <1>4, <1>5, <1>7, <2>1
<1> QED
  BY <1>2, <1>3, <1>6, <1>7 DEF Read

\* Truncating the temporary file breaks no promise: it is never the list itself.
LEMMA OpenPromises ==
    ASSUME IInv, PInv, NEW p \in Procs, Open(p)
    PROVE  PInv'
<1>1. CASE Fails(p) /\ UNCHANGED disk
  BY <1>1, FailKeeps DEF Open, disk
<1>2. ASSUME NEW i \in (IF tmp = None THEN Free ELSE {tmp}), tmp' = i,
             data' = [data EXCEPT ![i] = Blank], fd' = [fd EXCEPT ![p] = i],
             pc' = [pc EXCEPT ![p] = "write"], UNCHANGED <<file, cmd, list, history>>,
             pc[p] = "open"
      PROVE  PInv'
  <2>1. i \in Inodes /\ i # file
    BY <1>2 DEF IInv, Shape, Free, PInv, TwoFiles
  <2>2. /\ \A q \in Procs : q # p => pc'[q] = pc[q] /\ fd'[q] = fd[q]
        /\ pc'[p] = "write" /\ fd'[p] = i /\ data'[i] = Blank
        /\ \A j \in Inodes : j # i => data'[j] = data[j]
        /\ UNCHANGED <<alone, raced, promised>>
    BY <1>2, <2>1 DEF IInv, Shape, history
  <2>3. \A j \in Inodes : HonoursFile(j) \/ j = i => HonoursFile(j)'
    BY <2>2 DEF HonoursFile, Honours, Blank
  <2>4. PendingHonours'
    <3>1. \A q \in Procs : pc'[q] \in {"open", "write", "rename"} => Honours(list[q])'
      BY <1>2, <2>2 DEF PInv, PendingHonours, Honours
    <3>2. ASSUME NEW q \in Procs, pc'[q] = "write"
          PROVE  HonoursFile(fd[q])'
      <4>1. fd'[q] \in Inodes /\ (HonoursFile(fd'[q]) \/ fd'[q] = i)
        BY <2>1, <2>2, <3>2 DEF PInv, PendingHonours, IInv, AtWork, HonoursFile
      <4> QED
        BY <2>3, <4>1 DEF HonoursFile, Honours
    <3>3. HonoursFile(tmp)'
      BY <1>2, <2>1, <2>3 DEF HonoursFile, Honours
    <3> QED
      BY <3>1, <3>2, <3>3 DEF PendingHonours
  <2>5. ListHonours'
    BY <1>2, <2>1, <2>2 DEF PInv, ListHonours, HonoursFile, Honours, IInv, Shape
  <2>6. AloneOwns'
    BY <1>2, <2>1, <2>2 DEF PInv, AloneOwns, GhostTypes
  <2>7. NotPromised'
    BY <1>2, <2>2 DEF PInv, NotPromised
  <2>8. NeverRaced'
    BY <1>2, <2>1, <2>2 DEF PInv, NeverRaced, Readable, IInv, Shape
  <2>9. GhostTypes' /\ TwoFiles'
    BY <1>2, <2>1, <2>2 DEF PInv, GhostTypes, TwoFiles
  <2> QED
    BY <2>4, <2>5, <2>6, <2>7, <2>8, <2>9 DEF PInv
<1> QED
  BY <1>1, <1>2 DEF Open

\* What is written keeps the promises, also when the file has become the list under
\* the hands of the command.
LEMMA WritePromises ==
    ASSUME IInv, PInv, NEW p \in Procs, Write(p)
    PROVE  PInv'
<1>1. pc[p] = "write" /\ fd[p] \in Inodes /\ UNCHANGED <<file, tmp>>
  BY DEF IInv, AtWork, Write
<1>2. CASE data' = [data EXCEPT ![fd[p]] = Torn] /\ Fails(p)
  BY <1>1, <1>2, FailKeeps
<1>3. ASSUME NEW c \in Written(data[fd[p]], list[p]), data' = [data EXCEPT ![fd[p]] = c],
             pc' = [pc EXCEPT ![p] = "rename"], fd' = [fd EXCEPT ![p] = None],
             UNCHANGED <<cmd, list, history>>
      PROVE  PInv'
  <2>1. /\ \A q \in Procs : q # p => pc'[q] = pc[q] /\ fd'[q] = fd[q]
        /\ pc'[p] = "rename" /\ data'[fd[p]] = c
        /\ \A j \in Inodes : j # fd[p] => data'[j] = data[j]
        /\ UNCHANGED <<alone, raced, promised>>
    BY <1>1, <1>3 DEF IInv, Shape, history
  <2>2. (c = List(list[p]) \/ c = Torn) /\ (data[fd[p]] = Blank => c = List(list[p]))
    BY <1>3 DEF Written
  <2>3. Honours(list[p])
    BY <1>1 DEF PInv, PendingHonours
  <2>4. \A j \in Inodes : HonoursFile(j) \/ j = fd[p] => HonoursFile(j)'
    BY <2>1, <2>2, <2>3 DEF HonoursFile, Honours, List, Torn
  <2>5. PendingHonours'
    <3>1. \A q \in Procs : pc'[q] \in {"open", "write", "rename"} => Honours(list[q])'
      BY <1>1, <1>3, <2>1 DEF PInv, PendingHonours, Honours
    <3>2. ASSUME NEW q \in Procs, pc'[q] = "write"
          PROVE  HonoursFile(fd[q])'
      <4>1. q # p /\ fd'[q] = fd[q] /\ fd[q] \in Inodes /\ HonoursFile(fd[q])
        BY <2>1, <3>2 DEF PInv, PendingHonours, IInv, AtWork
      <4> QED
        BY <2>4, <4>1 DEF HonoursFile, Honours
    <3>3. ASSUME tmp # None
          PROVE  HonoursFile(tmp)'
      <4>1. tmp \in Inodes /\ HonoursFile(tmp)
        BY <1>1, <3>3 DEF PInv, PendingHonours, IInv, Shape
      <4> QED
        BY <1>1, <2>4, <4>1 DEF HonoursFile, Honours
    <3> QED
      BY <1>1, <3>1, <3>2, <3>3 DEF PendingHonours
  <2>6. ListHonours'
    BY <1>1, <2>1, <2>4 DEF PInv, ListHonours, HonoursFile, Honours, IInv, Shape
  <2>7. AloneOwns'
    BY <1>1, <1>3, <2>1, <2>2, KeysConstants DEF PInv, AloneOwns, GhostTypes
  <2>8. NotPromised'
    BY <1>1, <1>3, <2>1 DEF PInv, NotPromised
  <2>9. NeverRaced'
    <3> SUFFICES ASSUME ~raced
                 PROVE  (\A q \in Procs : pc'[q] # "off" => q \in alone) /\ Readable'
      BY <2>1 DEF NeverRaced
    <3>1. \A q \in Procs : pc'[q] # "off" => q \in alone
      BY <1>1, <2>1 DEF PInv, NeverRaced
    <3>2. fd[p] # file
      BY <1>1, KeysConstants DEF PInv, NeverRaced, AloneOwns, TwoFiles
    <3> QED
      BY <1>1, <2>1, <3>1, <3>2 DEF PInv, NeverRaced, Readable, IInv, Shape
  <2>10. GhostTypes' /\ TwoFiles'
    BY <1>1, <2>1 DEF PInv, GhostTypes, TwoFiles
  <2> QED
    BY <2>5, <2>6, <2>7, <2>8, <2>9, <2>10 DEF PInv
<1> QED
  BY <1>2, <1>3 DEF Write

\* The temporary file keeps the promises when it becomes the list.
LEMMA RenamePromises ==
    ASSUME IInv, PInv, NEW p \in Procs, Rename(p)
    PROVE  PInv'
<1>1. pc[p] = "rename"
  BY DEF Rename
<1>2. CASE tmp = None
  BY <1>1, <1>2, FailKeeps DEF Rename, disk
<1>3. CASE tmp # None
  <2>1. file' = tmp /\ tmp' = None /\ data' = data /\ Succeeds(p)
    BY <1>3 DEF Rename
  <2>2. tmp \in Inodes /\ HonoursFile(tmp)
    BY <1>1, <1>3 DEF PInv, PendingHonours, IInv, Shape
  <2>3. ASSUME p \in alone
        PROVE  /\ data[tmp].kind = "list"
               /\ \A k \in Concerns(cmd[p]) : Promise(cmd[p], k) = "in" <=> k \in data[tmp].keys
    <3>1. /\ data[tmp] = List(list[p])
          /\ \A k \in Concerns(cmd[p]) : Promise(cmd[p], k) = "in" <=> k \in list[p]
      BY <1>1, <2>3 DEF PInv, AloneOwns
    <3>2. List(list[p]).kind = "list" /\ List(list[p]).keys = list[p]
      BY DEF List
    <3> QED
      BY <3>1, <3>2
  <2> QED
    BY <1>1, <2>1, <2>2, <2>3, SuccessKeeps
<1> QED
  BY <1>2, <1>3

\* A command that is killed is one that fails.
LEMMA KillPromises ==
    ASSUME IInv, PInv, NEW p \in Procs, Kill(p)
    PROVE  PInv'
BY FailKeeps DEF Kill

\* One step of any command.
LEMMA NextPromises == IInv /\ PInv /\ [Next]_vars => PInv'
<1>1. ASSUME PInv, UNCHANGED vars
      PROVE  PInv'
  BY <1>1 DEF vars, disk, process, history, PInv, GhostTypes, ListHonours, PendingHonours,
              NotPromised, AloneOwns, NeverRaced, TwoFiles, HonoursFile, Honours, Readable
<1>2. ASSUME IInv, PInv, NEW p \in Procs,
             \/ \E c \in Command : Start(p, c)
             \/ Read(p) \/ Open(p) \/ Write(p) \/ Rename(p) \/ Kill(p)
      PROVE  PInv'
  BY <1>2, StartPromises, ReadPromises, OpenPromises, WritePromises, RenamePromises, KillPromises
<1> QED
  BY <1>1, <1>2 DEF Next

\* The promise of a command that ran alone, and the readability of a list that was
\* never changed by two commands at once, hold for any number of keys, commands,
\* kills and failed writes.
THEOREM PromisesHold == Spec => []UndisturbedCommandsHold
<1>1. PInv => UndisturbedCommandsHold
  BY DEF PInv, ListHonours, NeverRaced, HonoursFile, Honours, UndisturbedCommandsHold, Authorized,
         Readable, listed
<1> QED
  BY <1>1, InitInv, NextKeeps, InitPromises, NextPromises, PTL DEF Spec

-----------------------------------------------------------------------------
(* Types.                                                                  *)

KeyBounds == commands \in 0 .. MaxCommands /\ faults \in 0 .. MaxFaults

\* Commands and faults stay within their bounds.
LEMMA BoundsKept == KeyBounds /\ [Next]_vars => KeyBounds'
<1> SUFFICES ASSUME KeyBounds, [Next]_vars PROVE KeyBounds'
  OBVIOUS
<1> USE KeysConstants DEF KeyBounds
<1>1. CASE UNCHANGED vars
  BY <1>1 DEF vars, bounds
<1>2. ASSUME NEW p \in Procs, NEW c \in Command, Start(p, c)
      PROVE  KeyBounds'
  BY <1>2 DEF Start
<1>3. ASSUME NEW p \in Procs, Read(p) \/ Open(p) \/ Write(p) \/ Rename(p) \/ Kill(p)
      PROVE  KeyBounds'
  <2>1. UNCHANGED commands
    BY <1>3 DEF Read, Open, Write, Rename, Kill, Fails, Succeeds, End, bounds
  <2>2. faults' = faults \/ Fault
    BY <1>3 DEF Read, Open, Write, Rename, Kill, Fails, Succeeds, End, bounds
  <2> QED
    BY <2>1, <2>2 DEF Fault
<1> QED
  BY <1>1, <1>2, <1>3 DEF Next

\* TypeOK: every reachable state of the directory, the commands and the history is
\* well typed; in particular a command never writes to a file it has not opened.
THEOREM TypeCorrect == Spec => []TypeOK
<1>1. Init => KeyBounds
  BY KeysConstants DEF Init, KeyBounds
<1>2. IInv /\ PInv /\ KeyBounds => TypeOK
  BY DEF IInv, PInv, Shape, GhostTypes, KeyBounds, TypeOK
<1> QED
  BY <1>1, <1>2, BoundsKept, InitInv, NextKeeps, InitPromises, NextPromises, PTL DEF Spec

=============================================================================
