------------------------- MODULE StatsReporterProofs -------------------------
(***************************************************************************)
(* Proofs about StatsReporter, for any number of reports and faults.       *)
(***************************************************************************)
EXTENDS StatsReporter, WellFoundedInduction, TLAPS

\* The report the main loop has in hand, as a set of at most one.
InHand == IF pc \in {"sending", "saving"} THEN {Current} ELSE {}

\* Every report collected is somewhere.
Accounted == \A r \in 1 .. next - 1 : r \in got \cup (stash \ torn) \cup dropped \cup InHand

\* A file that is about to be removed has been received, and it could be read.
RemovedIsReceived == pc = "removing" => Oldest \in got \ torn

\* A file cut short belongs to a report the agent has given up or died with, so its
\* number is not used again by one that is saved properly; the flush is at a file
\* that exists.
TornIsPast ==
    /\ next \in Nat \ {0}
    /\ torn \subseteq stash /\ files \subseteq stash /\ stash \subseteq 1 .. next - 1
    /\ pc \in {"sending", "saving"} => next > 1 /\ Current \notin torn

Inv == Accounted /\ RemovedIsReceived /\ TornIsPast

\* A new agent has collected nothing.
LEMMA ReporterBegin == Init => Inv
BY DEF Init, Inv, Accounted, RemovedIsReceived, TornIsPast, InHand, Current

\* Collecting and delivering one report.
LEMMA ReportKeeps ==
    ASSUME Inv, Boot \/ StatsTick \/ StatsTickNoTraffic \/ Send \/ saveToCache
    PROVE  Inv'
<1> USE DEF Inv, Accounted, RemovedIsReceived, TornIsPast, InHand, Current
<1>1. CASE Boot
  BY <1>1 DEF Boot, Flush
<1>2. CASE StatsTick
  BY <1>2 DEF StatsTick
<1>3. CASE StatsTickNoTraffic
  BY <1>3 DEF StatsTickNoTraffic, Flush
<1>4. CASE Send
  BY <1>4 DEF Send, Flush
<1>5. CASE saveToCache
  <2>1. CASE stash' = stash \cup {Current} /\ Flush(stash') /\ UNCHANGED <<torn, dropped>>
    BY <1>5, <2>1 DEF saveToCache, Flush
  <2>2. CASE pc' = "idle" /\ dropped' = dropped \cup {Current} /\ Tear /\ UNCHANGED files
    <3>1. pc = "saving" /\ UNCHANGED <<next, got>>
      BY <1>5 DEF saveToCache
    <3>2. TornIsPast'
      <4>1. CASE stash' = stash \cup {Current} /\ torn' = torn \cup {Current}
        BY <2>2, <3>1, <4>1
      <4>2. CASE UNCHANGED <<stash, torn>>
        BY <2>2, <3>1, <4>2
      <4> QED
        BY <2>2, <4>1, <4>2 DEF Tear
    <3>3. stash \ torn \subseteq (stash' \ torn') \cup dropped'
      BY <2>2 DEF Tear
    <3> QED
      BY <2>2, <3>1, <3>2, <3>3
  <2> QED
    BY <1>5, <2>1, <2>2 DEF saveToCache
<1> QED
  BY <1>1, <1>2, <1>3, <1>4, <1>5

\* The flush of the cache directory.
LEMMA FlushKeeps ==
    ASSUME Inv, FlushEnd \/ FlushSkip \/ FlushTorn \/ FlushSend \/ FlushSendFails \/ Remove
    PROVE  Inv'
<1> USE DEF Inv, Accounted, RemovedIsReceived, TornIsPast, InHand, Current
<1>1. CASE FlushEnd
  BY <1>1 DEF FlushEnd
<1>2. CASE FlushSkip \/ FlushTorn
  BY <1>2 DEF FlushSkip, FlushTorn, RemoveFile
<1>3. CASE FlushSend
  BY <1>3 DEF FlushSend, Oldest
<1>4. CASE FlushSendFails
  BY <1>4 DEF FlushSendFails
<1>5. CASE Remove
  BY <1>5 DEF Remove, RemoveFile
<1> QED
  BY <1>1, <1>2, <1>3, <1>4, <1>5

\* Deaths, and sing-box.
LEMMA EnvironmentKeeps ==
    ASSUME Inv, Dies \/ Singbox \/ UNCHANGED vars
    PROVE  Inv'
<1> USE DEF Inv, Accounted, RemovedIsReceived, TornIsPast, InHand, Current
<1>1. CASE Dies
  <2>1. pc' = "down" /\ UNCHANGED <<next, got>>
    BY <1>1 DEF Dies
  <2>2. TornIsPast'
    <3>1. CASE pc = "saving" /\ stash' = stash \cup {Current} /\ torn' = torn \cup {Current}
      BY <1>1, <2>1, <3>1 DEF Dies
    <3>2. CASE UNCHANGED <<stash, torn>>
      BY <1>1, <2>1, <3>2 DEF Dies
    <3> QED
      BY <1>1, <3>1, <3>2 DEF Dies, Tear
  <2>3. dropped \cup InHand \subseteq dropped'
    BY <1>1 DEF Dies
  <2>4. stash \ torn \subseteq (stash' \ torn') \cup dropped'
    BY <1>1 DEF Dies, Tear
  <2> QED
    BY <2>1, <2>2, <2>3, <2>4
<1>2. CASE Singbox \/ UNCHANGED vars
  BY <1>2 DEF Singbox, vars, Oldest
<1> QED
  BY <1>1, <1>2

\* One step.
LEMMA ReporterKept == Inv /\ [Next]_vars => Inv'
BY ReportKeeps, FlushKeeps, EnvironmentKeeps DEF Next, Step

\* No report is lost between the server, the cache directory and the main loop
\* unless its save failed or the agent died with it, for any number of reports,
\* lost requests and answers, failed saves and deaths.
THEOREM NoReportLost == Spec => []ReportNotLost
<1>1. Inv => ReportNotLost
  BY DEF Inv, Accounted, InHand, ReportNotLost
<1> QED
  BY <1>1, ReporterBegin, ReporterKept, PTL DEF Spec

\* FlushCache's oldest file is one of the files.
LEMMA OldestIn ==
    ASSUME files \subseteq Nat, files # {}
    PROVE  Oldest \in files
<1>1. PICK x \in files : \A y \in files : <<y, x>> \notin OpToRel(<, Nat)
  BY NatLessThanWellFounded, WFMin
<1>2. ASSUME NEW y \in files PROVE ~(y < x)
  <2>1. y < x => <<y, x>> \in OpToRel(<, Nat)
    BY DEF OpToRel
  <2> QED
    BY <1>1, <2>1
<1>3. \A y \in files : x <= y
  BY <1>2
<1> QED
  BY <1>3 DEF Oldest, Min

\* TypeOK without up, which is the only Boolean.
Ranges ==
    /\ pc \in {"down", "idle", "sending", "saving", "flushing", "removing"}
    /\ next \in 1 .. MaxReports + 1
    /\ stash \subseteq Reports /\ torn \subseteq stash /\ files \subseteq stash
    /\ got \subseteq Reports /\ dropped \subseteq Reports
    /\ faults \in 0 .. MaxFaults

LEMMA RangesKept == ASSUME Ranges, Inv, [Next]_vars PROVE Ranges'
<1> USE DEF Ranges, Inv, TornIsPast
<1>0. pc \in {"sending", "saving"} => Current \in Reports
  BY ReporterConstants DEF Reports, Current
<1>f. Fault => faults' \in 0 .. MaxFaults
  BY ReporterConstants DEF Fault
<1>1. CASE Boot \/ StatsTick \/ StatsTickNoTraffic
  <2>1. /\ pc' \in {"flushing", "sending"} /\ UNCHANGED <<stash, torn, got, faults, dropped>>
        /\ next' = next \/ (next <= MaxReports /\ next' = next + 1)
    BY <1>1 DEF Boot, StatsTick, StatsTickNoTraffic, Flush
  <2>2. files' \subseteq stash'
    BY <1>1 DEF Boot, StatsTick, StatsTickNoTraffic, Flush
  <2> QED
    BY <2>1, <2>2, ReporterConstants
<1>2. CASE Send
  <2>1. /\ pc' \in {"flushing", "saving"}
        /\ got' \subseteq got \cup {Current} /\ files' \subseteq stash
    BY <1>2 DEF Send, Flush
  <2> QED
    BY <1>0, <1>2, <2>1 DEF Send
<1>3. CASE saveToCache
  <2>1. /\ pc' \in {"flushing", "idle"}
        /\ stash \subseteq stash' /\ stash' \subseteq stash \cup {Current}
        /\ dropped' \subseteq dropped \cup {Current} /\ (faults' = faults \/ Fault)
    BY <1>3 DEF saveToCache, Flush, Tear
  <2>2. torn' \subseteq stash' /\ files' \subseteq stash'
    BY <1>3 DEF saveToCache, Flush, Tear
  <2> QED
    BY <1>0, <1>f, <1>3, <2>1, <2>2 DEF saveToCache
<1>4. CASE FlushEnd \/ FlushSkip \/ FlushTorn \/ Remove
  BY <1>f, <1>4 DEF FlushEnd, FlushSkip, FlushTorn, Remove, RemoveFile
<1>5. CASE FlushSend \/ FlushSendFails
  <2>1. files \subseteq Nat /\ files # {}
    BY <1>5 DEF FlushSend, FlushSendFails, Reports
  <2>2. Oldest \in stash
    BY <2>1, OldestIn
  <2> QED
    BY <1>5, <2>2 DEF FlushSend, FlushSendFails
<1>6. CASE Dies
  <2>1. dropped' \subseteq Reports
    BY <1>0, <1>6 DEF Dies
  <2>2. stash' \subseteq Reports /\ torn' \subseteq stash'
    BY <1>0, <1>6 DEF Dies, Tear
  <2> QED
    BY <1>f, <1>6, <2>1, <2>2 DEF Dies
<1>7. CASE Singbox \/ UNCHANGED vars
  BY <1>7 DEF Singbox, vars
<1> QED
  BY <1>1, <1>2, <1>3, <1>4, <1>5, <1>6, <1>7 DEF Next, Step

\* The variables keep their types: no report has a number that was not given out, and
\* what cannot be parsed is among the files.
THEOREM TypeCorrect == Spec => []TypeOK
<1>1. Init => Ranges
  BY ReporterConstants DEF Init, Ranges
<1> DEFINE Up == up \in BOOLEAN
<1>2. Init => Up
  BY DEF Init
<1>3. Up /\ [Next]_vars => Up'
  BY DEF Next, Step, Boot, StatsTick, StatsTickNoTraffic, Send, saveToCache, FlushEnd,
         FlushSkip, FlushTorn, FlushSend, FlushSendFails, Remove, Dies, Singbox, vars
<1>4. Ranges /\ Up => TypeOK
  BY DEF Ranges, TypeOK
<1>5. Ranges /\ Inv /\ [Next]_vars => Ranges'
  BY RangesKept
<1> HIDE DEF Up
<1> QED
  BY <1>1, <1>2, <1>3, <1>4, <1>5, ReporterBegin, ReporterKept, PTL DEF Spec

=============================================================================
