----------------------------- MODULE SSHSession -----------------------------
(***************************************************************************)
(* One session channel of the agent's SSH server: handleSession, startShell,*)
(* runExec and pipe.  The goroutines of a session are the request loop,    *)
(* pipe itself, the waiter for the process and the two copiers between     *)
(* channel and pty.  They share the pty master (fd), the variable ptyFile  *)
(* under a mutex, and the channel.                                         *)
(*                                                                         *)
(* The client is any client that asks for its pty before it asks for a     *)
(* shell or a command.  It may half-close the channel, or close it or lose *)
(* the connection at any time.  The process may exit, be silent, ignore    *)
(* SIGHUP, let go of its terminal or leave children behind that hold it.   *)
(* Copied bytes are left out: what counts is when a copier returns.        *)
(***************************************************************************)
EXTENDS Naturals, Sequences

CONSTANTS
    Sizes,        \* window sizes
    NoReq,        \* ptyReq = nil
    NoSize,       \* the size of a pty nobody has set
    MaxRequests   \* bound: requests the client sends

ASSUME SessionConstants ==
    /\ NoReq \notin Sizes /\ NoSize \notin Sizes \cup {NoReq}
    /\ MaxRequests \in Nat

VARIABLES
    client,      \* "open", "eof" (no more input) or "closed"
    reqs,        \* requests received and not yet taken by the loop
    sent,        \* number of requests sent
    wanted,      \* the window size the client asked for last
    loop,        \* where handleSession is
    kind,        \* what was started: a shell, a command on a pty or without one
    ptyReq, ptyFile,
    fd,          \* the pty master
    win,         \* the size of the pty
    proc,        \* the process
    slave,       \* some process holds the pty slave, or the pipe to stdout, open
    signal,      \* the strongest signal sent to it
    pipe,        \* where pipe, or the end of runExec without pty, is
    waiter,      \* the goroutine in cmd.Wait
    inp, out,    \* the copiers channel -> pty and pty -> channel
    status,      \* exit-status was sent
    shut         \* the server has closed the channel

far      == <<client, reqs, sent, wanted>>
handle   == <<loop, kind, ptyReq>>
terminal == <<fd, win>>
process  == <<proc, slave, signal>>
pumps    == <<pipe, waiter, inp, out>>
channel  == <<status, shut>>
vars     == <<far, handle, ptyFile, terminal, process, pumps, channel>>

Request == [type : {"pty-req", "window-change"}, size : Sizes]
           \cup [type : {"shell", "exec", "badexec", "other"}]

\* One type invariant: every variable ranges over the values the code gives it.
TypeOK ==
    /\ client \in {"open", "eof", "closed"} /\ reqs \in Seq(Request)
    /\ sent \in 0 .. MaxRequests /\ wanted \in Sizes \cup {NoSize}
    /\ loop \in {"requests", "exec", "await", "defers", "done"}
    /\ kind \in {"none", "failed", "shell", "pty", "plain"}
    /\ ptyReq \in Sizes \cup {NoReq} /\ ptyFile \in BOOLEAN
    /\ fd \in {"none", "open", "closed"} /\ win \in Sizes \cup {NoSize}
    /\ proc \in {"none", "running", "exited"} /\ slave \in BOOLEAN
    /\ signal \in {"none", "hup", "kill"}
    /\ pipe \in {"none", "wait", "null", "close", "grace", "killed", "command", "status",
                 "shut", "done"}
    /\ waiter \in {"none", "wait", "done"} /\ inp \in {"none", "copy", "done"}
    /\ out \in {"none", "copy", "done"} /\ status \in BOOLEAN /\ shut \in BOOLEAN

Init ==
    /\ client = "open" /\ reqs = <<>> /\ sent = 0 /\ wanted = NoSize
    /\ loop = "requests" /\ kind = "none" /\ ptyReq = NoReq /\ ptyFile = FALSE
    /\ fd = "none" /\ win = NoSize /\ proc = "none" /\ slave = FALSE /\ signal = "none"
    /\ pipe = "none" /\ waiter = "none" /\ inp = "none" /\ out = "none"
    /\ status = FALSE /\ shut = FALSE

-----------------------------------------------------------------------------
(* The request loop of handleSession.                                      *)

started == kind # "none"

\* The loop takes the next request, of this type.
Take(type) ==
    /\ loop = "requests" /\ reqs # <<>> /\ Head(reqs).type = type
    /\ reqs' = Tail(reqs) /\ UNCHANGED <<client, sent, wanted>>

PtyReq ==
    /\ Take("pty-req") /\ ptyReq' = Head(reqs).size
    /\ UNCHANGED <<loop, kind, ptyFile, terminal, process, pumps, channel>>

\* Mutated: a size that arrives before the shell is forgotten.
WindowChangeLateOnly ==
    /\ Take("window-change")
    /\ win' = IF ptyFile THEN Head(reqs).size ELSE win
    /\ UNCHANGED <<handle, ptyFile, fd, process, pumps, channel>>

\* The size is set on the pty, or kept for startShell.
WindowChange ==
    /\ Take("window-change")
    /\ IF ptyFile THEN win' = Head(reqs).size /\ UNCHANGED ptyReq
       ELSE /\ ptyReq' = IF ptyReq = NoReq THEN NoReq ELSE Head(reqs).size
            /\ UNCHANGED win
    /\ UNCHANGED <<loop, kind, ptyFile, fd, process, pumps, channel>>

\* pty.Start succeeds: a process on a new pty, and the goroutines of pipe.
PtyStarts ==
    /\ proc' = "running" /\ slave' = TRUE /\ fd' = "open"
    /\ pipe' = "wait" /\ waiter' = "wait" /\ inp' = "copy" /\ out' = "copy"
    /\ UNCHANGED signal

\* Mutated: the size is read from a pty-req that may be missing.
initialSizeUnchecked == ptyReq

\* setWinsize after pty.Start, if there was a pty-req.
initialSize == IF ptyReq = NoReq THEN NoSize ELSE ptyReq

\* Mutated: pipe runs in the request loop.
ShellInline ==
    /\ Take("shell") /\ ~started
    /\ PtyStarts /\ win' = initialSize /\ kind' = "shell" /\ ptyFile' = TRUE /\ loop' = "exec"
    /\ UNCHANGED <<ptyReq, channel>>

\* startShell; pipe runs in a goroutine and the loop goes on.
Shell ==
    /\ Take("shell") /\ ~started
    /\ PtyStarts /\ win' = initialSize /\ kind' = "shell" /\ ptyFile' = TRUE
    /\ UNCHANGED <<loop, ptyReq, channel>>

\* startShell fails, or the command cannot be parsed: handleSession returns.
StartRefused ==
    /\ Take("shell") \/ Take("badexec")
    /\ ~started /\ kind' = "failed" /\ loop' = "defers"
    /\ UNCHANGED <<ptyReq, ptyFile, terminal, process, pumps, channel>>

\* runExec with a pty-req: the loop itself runs pipe.
ExecPty ==
    /\ Take("exec") /\ ~started /\ ptyReq # NoReq
    /\ PtyStarts /\ win' = initialSize /\ kind' = "pty" /\ loop' = "exec"
    /\ UNCHANGED <<ptyReq, ptyFile, channel>>

\* runExec without one: the loop waits in cmd.Wait.
ExecPlain ==
    /\ Take("exec") /\ ~started /\ ptyReq = NoReq
    /\ kind' = "plain" /\ loop' = "exec"
    /\ proc' = "running" /\ slave' = TRUE /\ pipe' = "command"
    /\ UNCHANGED <<ptyReq, ptyFile, terminal, signal, waiter, inp, out, channel>>

\* runExec cannot start the command: exit-status 1.
ExecFails ==
    /\ Take("exec") /\ ~started
    /\ kind' = "failed" /\ loop' = "exec" /\ pipe' = "status"
    /\ UNCHANGED <<ptyReq, ptyFile, terminal, process, waiter, inp, out, channel>>

\* A second shell or command is refused; env and the rest are only answered.
ReplyOnly ==
    /\ Take("other") \/ (started /\ (Take("shell") \/ Take("exec") \/ Take("badexec")))
    /\ UNCHANGED <<handle, ptyFile, terminal, process, pumps, channel>>

\* reqs is closed and drained: wait for pipe if the pty is still shared.
LoopEnds ==
    /\ loop = "requests" /\ reqs = <<>> /\ client = "closed"
    /\ loop' = IF ptyFile THEN "await" ELSE "defers"
    /\ UNCHANGED <<far, kind, ptyReq, ptyFile, terminal, process, pumps, channel>>

\* pipe has returned, to runExec or by closing piped.
Piped ==
    /\ loop \in {"exec", "await"} /\ pipe = "done" /\ loop' = "defers"
    /\ UNCHANGED <<far, kind, ptyReq, ptyFile, terminal, process, pumps, channel>>

\* What handleSession has deferred: close the pty, kill the shell, close the channel.
Defers ==
    /\ loop = "defers" /\ loop' = "done"
    /\ fd' = IF ptyFile THEN "closed" ELSE fd
    /\ signal' = IF kind = "shell" /\ proc = "running" THEN "kill" ELSE signal
    /\ shut' = TRUE
    /\ UNCHANGED <<far, kind, ptyReq, ptyFile, win, proc, slave, pumps, status>>

-----------------------------------------------------------------------------
(* pipe and its goroutines.                                                *)

\* cmd.Wait returns for a process on a pty as soon as it has exited.
WaiterDone ==
    /\ waiter = "wait" /\ proc = "exited" /\ waiter' = "done"
    /\ UNCHANGED <<far, handle, ptyFile, terminal, process, pipe, inp, out, channel>>

\* Mutated: the end of the input ends the session.
InputEndsSession ==
    /\ inp = "copy" /\ client # "open" /\ inp' = "done" /\ out' = "done"
    /\ UNCHANGED <<far, handle, ptyFile, terminal, process, pipe, waiter, channel>>

\* channel -> pty: the client has no more input, or the pty is closed.
InputEnds ==
    /\ inp = "copy" /\ (client # "open" \/ fd = "closed") /\ inp' = "done"
    /\ UNCHANGED <<far, handle, ptyFile, terminal, process, pipe, waiter, out, channel>>

\* pty -> channel: nobody holds the slave, so the master reads an error.
OutputEnds ==
    /\ out = "copy" /\ ~slave /\ out' = "done"
    /\ UNCHANGED <<far, handle, ptyFile, terminal, process, pipe, waiter, inp, channel>>

\* pty -> channel: output arrives and cannot be written to a closed channel, or the
\* read notices that the master is closed (it need not: setWinsize has made the
\* descriptor blocking).
OutputFails ==
    /\ out = "copy" /\ (client = "closed" \/ shut \/ fd = "closed") /\ out' = "done"
    /\ UNCHANGED <<far, handle, ptyFile, terminal, process, pipe, waiter, inp, channel>>

\* Mutated: only the copier's end counts, not the exit of the process.
doneOnEOF == out = "done"

\* stop has been called: by the waiter or by the output copier.
done == waiter = "done" \/ out = "done"

PipeDone ==
    /\ pipe = "wait" /\ done /\ pipe' = IF kind = "shell" THEN "null" ELSE "close"
    /\ UNCHANGED <<far, handle, ptyFile, terminal, process, waiter, inp, out, channel>>

\* Mutated: ptyFile is not set to nil.
closePTYKeepsFile ==
    /\ pipe = "null" /\ pipe' = "close"
    /\ UNCHANGED <<far, handle, ptyFile, terminal, process, waiter, inp, out, channel>>

\* closePTY of a shell: ptyFile = nil under the mutex, then Close.
closePTY ==
    /\ pipe = "null" /\ pipe' = "close" /\ ptyFile' = FALSE
    /\ UNCHANGED <<far, handle, terminal, process, waiter, inp, out, channel>>

\* Close: a process that still runs gets SIGHUP.
PtyClose ==
    /\ pipe = "close" /\ pipe' = "grace" /\ fd' = "closed"
    /\ signal' = IF proc = "running" /\ signal = "none" THEN "hup" ELSE signal
    /\ UNCHANGED <<far, handle, ptyFile, win, proc, slave, waiter, inp, out, channel>>

\* The exit code is there.
Waited ==
    /\ pipe \in {"grace", "killed"} /\ waiter = "done" /\ pipe' = "status"
    /\ UNCHANGED <<far, handle, ptyFile, terminal, process, waiter, inp, out, channel>>

\* Mutated: after two seconds the code 1 is reported and nobody is killed.
GraceTimeoutNoKill ==
    /\ pipe = "grace" /\ waiter # "done" /\ pipe' = "status"
    /\ UNCHANGED <<far, handle, ptyFile, terminal, process, waiter, inp, out, channel>>

\* Two seconds pass without it: Kill.
GraceTimeout ==
    /\ pipe = "grace" /\ waiter # "done" /\ pipe' = "killed"
    /\ signal' = IF proc = "running" THEN "kill" ELSE signal
    /\ UNCHANGED <<far, handle, ptyFile, terminal, proc, slave, waiter, inp, out, channel>>

\* Two more: give up waiting and report 1.
KillTimeout ==
    /\ pipe = "killed" /\ waiter # "done" /\ pipe' = "status"
    /\ UNCHANGED <<far, handle, ptyFile, terminal, process, waiter, inp, out, channel>>

\* cmd.Wait without pty returns when the process has exited and its output pipe has
\* reached its end.
CommandDone ==
    /\ pipe = "command" /\ proc = "exited" /\ ~slave /\ pipe' = "status"
    /\ UNCHANGED <<far, handle, ptyFile, terminal, process, waiter, inp, out, channel>>

\* Mutated: the channel is closed first.
sendExitStatusLate ==
    /\ pipe = "status" /\ pipe' = "shut" /\ shut' = TRUE
    /\ UNCHANGED <<far, handle, ptyFile, terminal, process, waiter, inp, out, status>>

sendExitStatus ==
    /\ pipe = "status" /\ pipe' = "shut" /\ status' = TRUE
    /\ UNCHANGED <<far, handle, ptyFile, terminal, process, waiter, inp, out, shut>>

Close ==
    /\ pipe = "shut" /\ pipe' = "done" /\ shut' = TRUE
    /\ UNCHANGED <<far, handle, ptyFile, terminal, process, waiter, inp, out, status>>

-----------------------------------------------------------------------------
(* The client and the process.                                             *)

Send(r) ==
    /\ client # "closed" /\ sent < MaxRequests
    /\ reqs' = Append(reqs, r) /\ sent' = sent + 1
    /\ UNCHANGED <<client, handle, ptyFile, terminal, process, pumps, channel>>

\* A pty comes before the shell or command, and window sizes after the pty.
SendPty(s) ==
    /\ ~started /\ \A i \in DOMAIN reqs : reqs[i].type \notin {"shell", "exec", "badexec"}
    /\ Send([type |-> "pty-req", size |-> s]) /\ wanted' = s

SendWindow(s) ==
    /\ wanted # NoSize /\ s # wanted
    /\ Send([type |-> "window-change", size |-> s]) /\ wanted' = s

SendOther ==
    /\ \E type \in {"shell", "exec", "badexec", "other"} : Send([type |-> type])
    /\ UNCHANGED wanted

HalfClose ==
    /\ client = "open" /\ client' = "eof"
    /\ UNCHANGED <<reqs, sent, wanted, handle, ptyFile, terminal, process, pumps, channel>>

\* The client closes the channel, or the connection is lost.
Disconnect ==
    /\ client # "closed" /\ client' = "closed"
    /\ UNCHANGED <<reqs, sent, wanted, handle, ptyFile, terminal, process, pumps, channel>>

\* The process lets go of its terminal, or the last of its children does.
Detach ==
    /\ slave /\ slave' = FALSE
    /\ UNCHANGED <<far, handle, ptyFile, terminal, proc, signal, pumps, channel>>

\* Children may still hold what it held.
ProcessExits ==
    /\ proc = "running" /\ proc' = "exited" /\ slave' \in {slave, FALSE}
    /\ UNCHANGED <<far, handle, ptyFile, terminal, signal, pumps, channel>>

-----------------------------------------------------------------------------

Loop == \/ PtyReq \/ WindowChange \/ Shell \/ StartRefused \/ ExecPty \/ ExecPlain \/ ExecFails
        \/ ReplyOnly \/ LoopEnds \/ Piped \/ Defers

Pipe == \/ PipeDone \/ closePTY \/ PtyClose \/ Waited \/ GraceTimeout \/ KillTimeout
        \/ CommandDone \/ sendExitStatus \/ Close

Client == SendOther \/ HalfClose \/ Disconnect \/ \E s \in Sizes : SendPty(s) \/ SendWindow(s)

Next == \/ Loop \/ Pipe \/ WaiterDone \/ InputEnds \/ OutputEnds \/ OutputFails
        \/ Client \/ Detach \/ ProcessExits

Spec == Init /\ [][Next]_vars

\* Goroutines that can run do, timers fire, a killed process exits, and a client
\* answers the server's close with its own.
FairSpec ==
    /\ Spec /\ WF_vars(Loop) /\ WF_vars(Pipe) /\ WF_vars(WaiterDone) /\ WF_vars(OutputEnds)
    /\ WF_vars(InputEnds) /\ WF_vars(signal = "kill" /\ ProcessExits)
    /\ WF_vars(shut /\ Disconnect)

-----------------------------------------------------------------------------
(* Properties.                                                             *)

\* While the request loop can set a window size on the shared pty, the pty is open:
\* closePTY and the end of handleSession never leave it a closed descriptor.
SharedPtyIsOpen == ptyFile => fd = "open"

\* A client that is still there gets the exit status of what it started before the
\* channel is closed, whichever of pipe, runExec and handleSession closes it.
StatusBeforeClose == shut /\ proc # "none" => status \/ client = "closed"

\* The server ends a session for a cause only: the process has exited or let go of
\* its terminal, or the client is gone; a half-closed channel is no cause.
EndsForCause ==
    pipe \notin {"none", "wait", "command"} /\ proc = "running" /\ slave => client = "closed"

\* When handleSession has returned, what it started has exited or been killed.
NoProcessLeft == loop = "done" /\ proc = "running" => signal = "kill"

\* The exit of the process ends the session (T-1), whatever its children hold; only
\* a command without pty waits until nobody holds its output.
ExitEndsSession == (proc = "exited") ~> (shut \/ (kind = "plain" /\ slave))

\* The pty of a shell gets the size the client asked for last (A-6), before or after
\* the shell was started.
WindowFollows ==
    \A s \in Sizes :
        (kind = "shell" /\ wanted = s) ~> (win = s \/ wanted # s \/ ~ptyFile)

\* The process of a client that has gone away gets SIGHUP (comment in pipe).
HangupOnDisconnect ==
    (client = "closed" /\ kind = "shell") ~> (proc = "exited" \/ signal # "none")

=============================================================================
