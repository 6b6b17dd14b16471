-------------------------- MODULE SSHSessionProofs --------------------------
(***************************************************************************)
(* Proofs about SSHSession, for any set of window sizes and any number of  *)
(* requests: type correctness, and the safety properties of a session.     *)
(***************************************************************************)
EXTENDS SSHSession, TLAPS

-----------------------------------------------------------------------------
(* The inductive invariant.                                                *)

\* A pty is shared with the request loop from the start of the shell until closePTY.
Shared == ptyFile <=> kind = "shell" /\ pipe \in {"wait", "null"}

\* What has not been started has left no trace.
NothingStarted ==
    /\ kind = "none" => pipe = "none" /\ status = FALSE
    /\ kind \in {"none", "failed"} => proc = "none" /\ waiter = "none" /\ out = "none"

\* The request loop gets past a process it started only behind pipe, or because the
\* client is gone.
LoopPosition ==
    /\ loop = "requests" => kind \in {"none", "shell"}
    /\ loop = "await" => kind = "shell"
    /\ loop # "requests" /\ kind \in {"none", "shell"} => client = "closed"
    /\ loop \in {"defers", "done"} => ~ptyFile
    /\ loop \in {"defers", "done"} /\ kind \in {"pty", "plain"} => pipe = "done"
    /\ shut /\ kind \in {"none", "shell"} => client = "closed" \/ pipe = "done"

\* The pty is open until pipe has closed it.
PtyPosition ==
    /\ fd = "open" <=> kind \in {"shell", "pty"} /\ pipe \in {"wait", "null", "close"}
    /\ fd = "closed" => pipe \in {"grace", "killed", "status", "shut", "done"}

\* Exit status and close come in this order.
StatusPosition ==
    /\ status <=> pipe \in {"shut", "done"}
    /\ shut => status \/ client = "closed" \/ kind = "failed"

\* Whoever called stop had a cause.
StopHasCause ==
    /\ waiter = "done" => proc = "exited"
    /\ out = "done" /\ proc = "running" /\ slave => client = "closed"

\* pipe reports an exit status only of a process that has exited or was killed.
KilledBeforeStatus ==
    pipe \in {"killed", "status", "shut", "done"} /\ proc = "running" => signal = "kill"

Inv ==
    /\ Shared /\ NothingStarted /\ LoopPosition /\ PtyPosition /\ StatusPosition
    /\ StopHasCause /\ KilledBeforeStatus /\ EndsForCause /\ NoProcessLeft


-----------------------------------------------------------------------------
(* Type correctness.                                                       *)

\* A request taken by the loop is one of the well-formed ones; only pty-req and
\* window-change carry a size.
LEMMA TakeType ==
    ASSUME TypeOK, NEW type, Take(type)
    PROVE  /\ reqs' \in Seq(Request)
           /\ type \in {"pty-req", "window-change"} => Head(reqs).size \in Sizes
  <1>1. Head(reqs) \in Request /\ Head(reqs).type = type /\ Tail(reqs) \in Seq(Request)
    BY DEF TypeOK, Take
  <1>2. ASSUME type \in {"pty-req", "window-change"} PROVE Head(reqs).size \in Sizes
    BY <1>1, <1>2 DEF Request
  <1> QED  BY <1>1, <1>2 DEF Take

\* No step of the loop, of pipe, of the client or of the process leaves the types.
LEMMA TypeStep == TypeOK /\ [Next]_vars => TypeOK'
  <1> SUFFICES ASSUME TypeOK, [Next]_vars PROVE TypeOK'  OBVIOUS
  <1> USE SessionConstants
  <1>1. CASE PtyReq
    <2>1. reqs' \in Seq(Request) /\ client' = client /\ sent' = sent /\ wanted' = wanted
      BY <1>1, TakeType DEF PtyReq, Take
    <2>2. Head(reqs).size \in Sizes
      BY <1>1, TakeType DEF PtyReq
    <2> QED  BY <1>1, <2>1, <2>2 DEF PtyReq, TypeOK, far, handle, terminal, process, pumps, channel
  <1>2. CASE WindowChange
    <2>1. reqs' \in Seq(Request) /\ client' = client /\ sent' = sent /\ wanted' = wanted
      BY <1>2, TakeType DEF WindowChange, Take
    <2>2. Head(reqs).size \in Sizes
      BY <1>2, TakeType DEF WindowChange
    <2> QED  BY <1>2, <2>1, <2>2 DEF WindowChange, TypeOK, far, handle, terminal, process, pumps, channel
  <1>3. CASE Shell
    <2>1. reqs' \in Seq(Request) /\ client' = client /\ sent' = sent /\ wanted' = wanted
      BY <1>3, TakeType DEF Shell, Take
    <2> QED  BY <1>3, <2>1 DEF Shell, started, PtyStarts, initialSize, TypeOK, far, handle, terminal, process, pumps, channel
  <1>4. CASE StartRefused
    <2>1. reqs' \in Seq(Request) /\ client' = client /\ sent' = sent /\ wanted' = wanted
      BY <1>4, TakeType DEF StartRefused, Take
    <2> QED  BY <1>4, <2>1 DEF StartRefused, started, TypeOK, far, handle, terminal, process, pumps, channel
  <1>5. CASE ExecPty
    <2>1. reqs' \in Seq(Request) /\ client' = client /\ sent' = sent /\ wanted' = wanted
      BY <1>5, TakeType DEF ExecPty, Take
    <2> QED  BY <1>5, <2>1 DEF ExecPty, started, PtyStarts, initialSize, TypeOK, far, handle, terminal, process, pumps, channel
  <1>6. CASE ExecPlain
    <2>1. reqs' \in Seq(Request) /\ client' = client /\ sent' = sent /\ wanted' = wanted
      BY <1>6, TakeType DEF ExecPlain, Take
    <2> QED  BY <1>6, <2>1 DEF ExecPlain, started, TypeOK, far, handle, terminal, process, pumps, channel
  <1>7. CASE ExecFails
    <2>1. reqs' \in Seq(Request) /\ client' = client /\ sent' = sent /\ wanted' = wanted
      BY <1>7, TakeType DEF ExecFails, Take
    <2> QED  BY <1>7, <2>1 DEF ExecFails, started, TypeOK, far, handle, terminal, process, pumps, channel
  <1>8. CASE ReplyOnly
    <2>1. reqs' \in Seq(Request) /\ client' = client /\ sent' = sent /\ wanted' = wanted
      BY <1>8, TakeType DEF ReplyOnly, Take
    <2> QED  BY <1>8, <2>1 DEF ReplyOnly, started, TypeOK, far, handle, terminal, process, pumps, channel
  <1>9. CASE LoopEnds
    BY <1>9 DEF LoopEnds, TypeOK, far, handle, terminal, process, pumps, channel
  <1>10. CASE Piped
    BY <1>10 DEF Piped, TypeOK, far, handle, terminal, process, pumps, channel
  <1>11. CASE Defers
    BY <1>11 DEF Defers, TypeOK, far, handle, terminal, process, pumps, channel
  <1>12. CASE PipeDone
    BY <1>12 DEF PipeDone, done, TypeOK, far, handle, terminal, process, pumps, channel
  <1>13. CASE closePTY
    <2>1. ptyFile' \in BOOLEAN
      BY <1>13, Zenon DEF closePTY, TypeOK
    <2> QED  BY <1>13, <2>1 DEF closePTY, TypeOK, far, handle, terminal, process, pumps, channel
  <1>14. CASE PtyClose
    BY <1>14 DEF PtyClose, TypeOK, far, handle, terminal, process, pumps, channel
  <1>15. CASE Waited
    BY <1>15 DEF Waited, TypeOK, far, handle, terminal, process, pumps, channel
  <1>16. CASE GraceTimeout
    BY <1>16 DEF GraceTimeout, TypeOK, far, handle, terminal, process, pumps, channel
  <1>17. CASE KillTimeout
    BY <1>17 DEF KillTimeout, TypeOK, far, handle, terminal, process, pumps, channel
  <1>18. CASE CommandDone
    BY <1>18 DEF CommandDone, TypeOK, far, handle, terminal, process, pumps, channel
  <1>19. CASE sendExitStatus
    BY <1>19 DEF sendExitStatus, TypeOK, far, handle, terminal, process, pumps, channel
  <1>20. CASE Close
    BY <1>20 DEF Close, TypeOK, far, handle, terminal, process, pumps, channel
  <1>21. CASE WaiterDone
    BY <1>21 DEF WaiterDone, TypeOK, far, handle, terminal, process, pumps, channel
  <1>22. CASE InputEnds
    BY <1>22 DEF InputEnds, TypeOK, far, handle, terminal, process, pumps, channel
  <1>23. CASE OutputEnds
    BY <1>23 DEF OutputEnds, TypeOK, far, handle, terminal, process, pumps, channel
  <1>24. CASE OutputFails
    BY <1>24 DEF OutputFails, TypeOK, far, handle, terminal, process, pumps, channel
  <1>25. CASE Client
    <2>1. \A r \in Request : Append(reqs, r) \in Seq(Request)
      BY DEF TypeOK
    <2>2. ASSUME NEW s \in Sizes
          PROVE  /\ [type |-> "pty-req", size |-> s] \in Request
                 /\ [type |-> "window-change", size |-> s] \in Request
      BY DEF Request
    <2>3. ASSUME NEW type \in {"shell", "exec", "badexec", "other"}
          PROVE  [type |-> type] \in Request
      BY DEF Request
    <2>4. CASE SendOther
      BY <2>1, <2>3, <2>4 DEF SendOther, Send, TypeOK, far, handle, terminal, process, pumps, channel
    <2>5. CASE HalfClose \/ Disconnect
      BY <2>5 DEF HalfClose, Disconnect, TypeOK, far, handle, terminal, process, pumps, channel
    <2>6. CASE \E s \in Sizes : SendPty(s) \/ SendWindow(s)
      BY <2>1, <2>2, <2>6 DEF SendPty, SendWindow, Send, TypeOK, far, handle, terminal, process, pumps, channel
    <2> QED  BY <1>25, <2>4, <2>5, <2>6 DEF Client
  <1>26. CASE Detach
    <2>1. slave' \in BOOLEAN
      BY <1>26, Zenon DEF Detach, TypeOK
    <2> QED  BY <1>26, <2>1 DEF Detach, TypeOK, far, handle, terminal, process, pumps, channel
  <1>27. CASE ProcessExits
    <2>1. slave' \in BOOLEAN
      BY <1>27, Zenon DEF ProcessExits, TypeOK
    <2> QED  BY <1>27, <2>1 DEF ProcessExits, TypeOK, far, handle, terminal, process, pumps, channel
  <1>28. CASE UNCHANGED vars
    BY <1>28 DEF vars, TypeOK, far, handle, terminal, process, pumps, channel
  <1> QED
    BY <1>1, <1>2, <1>3, <1>4, <1>5, <1>6, <1>7, <1>8, <1>9, <1>10, <1>11, <1>12,
        <1>13, <1>14, <1>15, <1>16, <1>17, <1>18, <1>19, <1>20, <1>21, <1>22, <1>23,
        <1>24, <1>25, <1>26, <1>27, <1>28
    DEF Next, Loop, Pipe

\* TypeOK: every reachable state of a session is well typed, for any number of
\* requests and window sizes.
THEOREM TypeCorrect == Spec => []TypeOK
  <1>1. Init => TypeOK
    <2>1. Init => /\ ptyFile \in BOOLEAN /\ slave \in BOOLEAN
                  /\ status \in BOOLEAN /\ shut \in BOOLEAN
      BY Zenon DEF Init
    <2>2. Init => reqs \in Seq(Request)
      BY DEF Init
    <2> QED  BY <2>1, <2>2, SessionConstants DEF Init, TypeOK
  <1> QED  BY <1>1, TypeStep, PTL DEF Spec

-----------------------------------------------------------------------------
(* Safety.                                                                 *)

\* Inv is inductive: one case per action.
LEMMA InvStep == TypeOK /\ Inv /\ [Next]_vars => Inv'
  <1> SUFFICES ASSUME TypeOK, Inv, [Next]_vars PROVE Inv'  OBVIOUS
  <1> USE DEF Inv, Shared, NothingStarted, LoopPosition, PtyPosition, StatusPosition,
        StopHasCause, KilledBeforeStatus, EndsForCause, NoProcessLeft
  <1>1. CASE PtyReq
    BY <1>1 DEF PtyReq, Take, TypeOK, far, handle, terminal, process, pumps, channel
  <1>2. CASE WindowChange
    BY <1>2 DEF WindowChange, Take, TypeOK, far, handle, terminal, process, pumps, channel
  <1>3. CASE Shell
    BY <1>3 DEF Shell, Take, started, PtyStarts, TypeOK, far, handle, terminal, process, pumps, channel
  <1>4. CASE StartRefused
    BY <1>4 DEF StartRefused, Take, started, TypeOK, far, handle, terminal, process, pumps, channel
  <1>5. CASE ExecPty
    BY <1>5 DEF ExecPty, Take, started, PtyStarts, TypeOK, far, handle, terminal, process, pumps, channel
  <1>6. CASE ExecPlain
    BY <1>6 DEF ExecPlain, Take, started, TypeOK, far, handle, terminal, process, pumps, channel
  <1>7. CASE ExecFails
    BY <1>7 DEF ExecFails, Take, started, TypeOK, far, handle, terminal, process, pumps, channel
  <1>8. CASE ReplyOnly
    BY <1>8 DEF ReplyOnly, Take, started, TypeOK, far, handle, terminal, process, pumps, channel
  <1>9. CASE LoopEnds
    BY <1>9 DEF LoopEnds, TypeOK, far, handle, terminal, process, pumps, channel
  <1>10. CASE Piped
    BY <1>10 DEF Piped, TypeOK, far, handle, terminal, process, pumps, channel
  <1>11. CASE Defers
    BY <1>11 DEF Defers, TypeOK, far, handle, terminal, process, pumps, channel
  <1>12. CASE PipeDone
    BY <1>12 DEF PipeDone, done, TypeOK, far, handle, terminal, process, pumps, channel
  <1>13. CASE closePTY
    BY <1>13 DEF closePTY, TypeOK, far, handle, terminal, process, pumps, channel
  <1>14. CASE PtyClose
    BY <1>14 DEF PtyClose, TypeOK, far, handle, terminal, process, pumps, channel
  <1>15. CASE Waited
    BY <1>15 DEF Waited, TypeOK, far, handle, terminal, process, pumps, channel
  <1>16. CASE GraceTimeout
    BY <1>16 DEF GraceTimeout, TypeOK, far, handle, terminal, process, pumps, channel
  <1>17. CASE KillTimeout
    BY <1>17 DEF KillTimeout, TypeOK, far, handle, terminal, process, pumps, channel
  <1>18. CASE CommandDone
    BY <1>18 DEF CommandDone, TypeOK, far, handle, terminal, process, pumps, channel
  <1>19. CASE sendExitStatus
    BY <1>19 DEF sendExitStatus, TypeOK, far, handle, terminal, process, pumps, channel
  <1>20. CASE Close
    BY <1>20 DEF Close, TypeOK, far, handle, terminal, process, pumps, channel
  <1>21. CASE WaiterDone
    BY <1>21 DEF WaiterDone, TypeOK, far, handle, terminal, process, pumps, channel
  <1>22. CASE InputEnds
    BY <1>22 DEF InputEnds, TypeOK, far, handle, terminal, process, pumps, channel
  <1>23. CASE OutputEnds
    BY <1>23 DEF OutputEnds, TypeOK, far, handle, terminal, process, pumps, channel
  <1>24. CASE OutputFails
    BY <1>24 DEF OutputFails, TypeOK, far, handle, terminal, process, pumps, channel
  <1>25. CASE Client
    <2>1. ASSUME NEW r, Send(r) PROVE Inv'
      BY <2>1 DEF Send, TypeOK, far, handle, terminal, process, pumps, channel
    <2>2. CASE HalfClose \/ Disconnect
      BY <2>2 DEF HalfClose, Disconnect, TypeOK, far, handle, terminal, process, pumps, channel
    <2> QED  BY <1>25, <2>1, <2>2, Zenon DEF Client, SendOther, SendPty, SendWindow
  <1>26. CASE Detach
    BY <1>26 DEF Detach, TypeOK, far, handle, terminal, process, pumps, channel
  <1>27. CASE ProcessExits
    BY <1>27 DEF ProcessExits, TypeOK, far, handle, terminal, process, pumps, channel
  <1>28. CASE UNCHANGED vars
    BY <1>28 DEF vars, far, handle, terminal, process, pumps, channel
  <1> QED
    BY <1>1, <1>2, <1>3, <1>4, <1>5, <1>6, <1>7, <1>8, <1>9, <1>10, <1>11, <1>12,
        <1>13, <1>14, <1>15, <1>16, <1>17, <1>18, <1>19, <1>20, <1>21, <1>22, <1>23,
        <1>24, <1>25, <1>26, <1>27, <1>28
    DEF Next, Loop, Pipe

\* Inv is an invariant of the session.
LEMMA Invariance == Spec => []Inv
  <1>1. Init => Inv
    BY DEF Init, Inv, Shared, NothingStarted, LoopPosition, PtyPosition, StatusPosition,
        StopHasCause, KilledBeforeStatus, EndsForCause, NoProcessLeft
  <1> QED  BY <1>1, TypeCorrect, InvStep, PTL DEF Spec

\* SharedPtyIsOpen: a window change never reaches a closed pty.
THEOREM WindowChangeIsSafe == Spec => []SharedPtyIsOpen
  <1>1. Inv => SharedPtyIsOpen
    BY DEF Inv, Shared, PtyPosition, SharedPtyIsOpen
  <1> QED  BY <1>1, Invariance, PTL

\* StatusBeforeClose: no goroutine closes the channel of a client that is still there
\* before the exit status of its process was sent.
THEOREM StatusIsSent == Spec => []StatusBeforeClose
  <1>1. Inv => StatusBeforeClose
    BY DEF Inv, StatusPosition, NothingStarted, StatusBeforeClose
  <1> QED  BY <1>1, Invariance, PTL

\* EndsForCause: a session ends only with its process, its terminal or its client.
THEOREM NoEarlyEnd == Spec => []EndsForCause
  <1>1. Inv => EndsForCause
    BY DEF Inv
  <1> QED  BY <1>1, Invariance, PTL

\* NoProcessLeft: handleSession returns only when its process has exited or was
\* killed.
THEOREM ProcessIsEnded == Spec => []NoProcessLeft
  <1>1. Inv => NoProcessLeft
    BY DEF Inv
  <1> QED  BY <1>1, Invariance, PTL

=============================================================================
