---------------------------- MODULE StatsReporter ----------------------------
(***************************************************************************)
(* stats.Reporter and collectAndReport: traffic reports to the management  *)
(* server.  A report that cannot be delivered is saved as a file of the    *)
(* cache directory; a later flush sends the files, oldest first, and       *)
(* removes each after the server's answer.  Requests and answers can be    *)
(* lost, and the agent can die anywhere.  Reports are numbered in the      *)
(* order they were collected, which is the order of the file names.  A     *)
(* file cut short by a death or a full disk is removed unsent by the next  *)
(* flush, a file that cannot be read is passed over.  Only the main loop   *)
(* calls the Reporter, so its steps interleave with the network, sing-box  *)
(* and deaths, not with each other.                                        *)
(***************************************************************************)
EXTENDS Naturals, FiniteSetsExt

CONSTANTS
    MaxReports,     \* bound: reports with traffic in them
    MaxFaults       \* bound: failed file operations and deaths of the agent

ASSUME ReporterConstants == MaxReports \in Nat /\ MaxFaults \in Nat

VARIABLES
    pc,         \* where the main loop is in collectAndReport
    next,       \* number of the next report
    stash,      \* reports in files of the cache directory
    torn,       \* those of them that cannot be parsed
    files,      \* those the flush has listed and not handled yet
    got,        \* reports the server has received at least once
    up,         \* sing-box's statistics API answers
    faults,
    dropped     \* history: reports lost by a failed save or a death of the agent

vars == <<pc, next, stash, torn, files, got, up, faults, dropped>>

Reports == 1 .. MaxReports

\* One type invariant: every variable ranges over the values the code gives it.
TypeOK ==
    /\ pc \in {"down", "idle", "sending", "saving", "flushing", "removing"}
    /\ next \in 1 .. MaxReports + 1
    /\ stash \subseteq Reports /\ torn \subseteq stash /\ files \subseteq stash
    /\ got \subseteq Reports /\ dropped \subseteq Reports
    /\ up \in BOOLEAN /\ faults \in 0 .. MaxFaults

Init == pc = "down" /\ next = 1 /\ stash = {} /\ torn = {} /\ files = {}
        /\ got = {} /\ dropped = {} /\ up = FALSE /\ faults = 0

Fault == faults < MaxFaults /\ faults' = faults + 1

\* The report being sent or saved.
Current == next - 1

\* The file FlushCache is at; Glob returns the names in order.
Oldest == Min(files)

\* FlushCache begins: it lists the files there are.
Flush(listed) == pc' = "flushing" /\ files' = listed

\* os.Remove of the file the flush is at; its failure is ignored.
RemoveFile ==
    /\ files' = files \ {Oldest}
    /\ \/ stash' = stash \ {Oldest} /\ torn' = torn \ {Oldest} /\ UNCHANGED faults
       \/ Fault /\ UNCHANGED <<stash, torn>>

\* The agent starts and flushes once.
Boot ==
    /\ pc = "down" /\ Flush(stash)
    /\ UNCHANGED <<next, stash, torn, got, up, faults, dropped>>

\* collectAndReport when sing-box answers with traffic: Report builds a new report.
StatsTick ==
    /\ pc = "idle" /\ up /\ next <= MaxReports
    /\ pc' = "sending" /\ next' = next + 1
    /\ UNCHANGED <<stash, torn, files, got, up, faults, dropped>>

\* collectAndReport when no user has had traffic since sing-box was started: Report
\* returns nil at once, and the cache is flushed if it holds anything.
StatsTickNoTraffic ==
    /\ pc = "idle" /\ up /\ stash # {} /\ Flush(stash)
    /\ UNCHANGED <<next, stash, torn, got, up, faults, dropped>>

\* Mutated: a report whose sending failed is not saved.
SendForgotten ==
    /\ pc = "sending" /\ Flush(stash)
    /\ got' \in {got, got \cup {Current}}
    /\ UNCHANGED <<next, stash, torn, up, faults, dropped>>

\* send inside Report: answered, or failed, with the server reached or not.
Send ==
    /\ pc = "sending"
    /\ \/ Flush(stash) /\ got' = got \cup {Current}
       \/ pc' = "saving" /\ got' \in {got, got \cup {Current}} /\ UNCHANGED files
    /\ UNCHANGED <<next, stash, torn, up, faults, dropped>>

\* The file is left incomplete, or was not created.
Tear ==
    \/ stash' = stash \cup {Current} /\ torn' = torn \cup {Current}
    \/ UNCHANGED <<stash, torn>>

\* saveToCache; Report then returns nil, and the cache is flushed.  If saving fails
\* Report returns the error, and nothing is flushed.
saveToCache ==
    /\ pc = "saving"
    /\ \/ stash' = stash \cup {Current} /\ Flush(stash') /\ UNCHANGED <<torn, faults, dropped>>
       \/ pc' = "idle" /\ Fault /\ dropped' = dropped \cup {Current} /\ Tear /\ UNCHANGED files
    /\ UNCHANGED <<next, got, up>>

\* FlushCache has no file left.
FlushEnd ==
    /\ pc = "flushing" /\ files = {} /\ pc' = "idle"
    /\ UNCHANGED <<next, stash, torn, files, got, up, faults, dropped>>

\* ReadFile fails: the flush passes the file over.
FlushSkip ==
    /\ pc = "flushing" /\ files # {} /\ Fault /\ files' = files \ {Oldest}
    /\ UNCHANGED <<pc, next, stash, torn, got, up, dropped>>

\* Mutated: a file that cannot be parsed ends the flush and stays.
FlushTornStops ==
    /\ pc = "flushing" /\ files # {} /\ Oldest \in torn /\ pc' = "idle" /\ files' = {}
    /\ UNCHANGED <<next, stash, torn, got, up, faults, dropped>>

\* A file that cannot be parsed is removed.
FlushTorn ==
    /\ pc = "flushing" /\ files # {} /\ Oldest \in torn /\ RemoveFile
    /\ UNCHANGED <<pc, next, got, up, dropped>>

\* The oldest file is sent and answered.
FlushSend ==
    /\ pc = "flushing" /\ files # {} /\ Oldest \notin torn
    /\ pc' = "removing" /\ got' = got \cup {Oldest}
    /\ UNCHANGED <<next, stash, torn, files, up, faults, dropped>>

\* Sending it fails, with the server reached or not, and ends the flush.
FlushSendFails ==
    /\ pc = "flushing" /\ files # {} /\ Oldest \notin torn
    /\ pc' = "idle" /\ files' = {} /\ got' \in {got, got \cup {Oldest}}
    /\ UNCHANGED <<next, stash, torn, up, faults, dropped>>

\* The answered file is removed.
Remove ==
    /\ pc = "removing" /\ pc' = "flushing" /\ RemoveFile
    /\ UNCHANGED <<next, got, up, dropped>>

\* The agent dies: only the files survive, perhaps one that is not complete.
Dies ==
    /\ pc # "down" /\ pc' = "down" /\ files' = {} /\ Fault
    /\ dropped' = IF pc \in {"sending", "saving"} THEN dropped \cup {Current} ELSE dropped
    /\ IF pc = "saving" THEN Tear ELSE UNCHANGED <<stash, torn>>
    /\ UNCHANGED <<next, got, up>>

\* sing-box stops or resumes answering.
Singbox == up' = ~up /\ UNCHANGED <<pc, next, stash, torn, files, got, faults, dropped>>

-----------------------------------------------------------------------------

Step == \/ Boot \/ Send \/ saveToCache
        \/ FlushEnd \/ FlushSkip \/ FlushTorn \/ FlushSend \/ FlushSendFails \/ Remove

Next == Step \/ StatsTick \/ StatsTickNoTraffic \/ Dies \/ Singbox

Spec == Init /\ [][Next]_vars

\* The main loop goes on and is restarted, its timer keeps firing, and a server that
\* is asked again and again eventually answers.
FairSpec ==
    /\ Spec /\ WF_vars(Step)
    /\ SF_vars(StatsTick \/ StatsTickNoTraffic) /\ SF_vars(FlushSend)

-----------------------------------------------------------------------------
(* Properties.                                                             *)

\* Every report collected reached the server, waits in a file, or is in hand,
\* unless its save failed or the agent died with it: neither a lost answer nor an
\* abandoned flush loses traffic.
ReportNotLost ==
    \A r \in 1 .. next - 1 :
        \/ r \in got \cup (stash \ torn) \cup dropped
        \/ r = Current /\ pc \in {"sending", "saving"}

\* A saved report is eventually delivered if sing-box keeps answering: no file, not
\* even one that cannot be parsed, read or removed now, blocks those after it for ever.
StashIsDelivered ==
    []<>up => \A r \in Reports : (r \in stash \ torn) ~> (r \in got)

=============================================================================
