--------------------------- MODULE NeighborScan ---------------------------
(***************************************************************************)
(* Neighbor scans (stats.c).                                               *)
(*                                                                         *)
(* OpenSync's Stats Manager starts a scan of some channels with a          *)
(* callback.  The driver scans on its own; the library polls its result    *)
(* with a timer, at most STATS_SCAN_RESULT_POLL_TIMEOUT times, and calls   *)
(* the callback with the outcome.  The callback fetches the neighbors with *)
(* stats_scan_get and may start the next scan, so the handler is re-       *)
(* entered: it calls the callback last.  The result, the request, the      *)
(* timer and its count are static, one for all radios and scan types.      *)
(*                                                                         *)
(* The Stats Manager is outside the repository: it is assumed to wait for  *)
(* the answer to one scan, or to stop it, before it starts the next.       *)
(***************************************************************************)
EXTENDS Integers, Sequences, SequencesExt

CONSTANTS
    Chans, Bssids, Ssids,
    Tables,             \* what the driver's table of neighbors can be
    STATS_SCAN_MAX_RECORDS,
    STATS_SCAN_RESULT_POLL_TIMEOUT,
    NoResults,          \* g_scan_results is NULL
    NoRequest,          \* no request yet
    MaxStarts,          \* bound: scans
    MaxFailures         \* bound: failing HAL calls

Neighbor == [bssid : Bssids, ssid : Ssids, chan : Chans]

ASSUME ScanAssumption ==
    /\ Tables \subseteq Seq(Neighbor)
    /\ STATS_SCAN_MAX_RECORDS \in Nat
    /\ STATS_SCAN_RESULT_POLL_TIMEOUT \in Nat \ {0}
    /\ MaxStarts \in Nat /\ MaxFailures \in Nat
    /\ NoResults \notin Seq(Neighbor)

Scans == 1 .. MaxStarts
ChanLists == SUBSET Chans \ {{}}

VARIABLES
    driver,             \* idle, scanning, or failed
    hal_table,          \* the driver's neighbors, of all channels it ever saw
    g_scan_results, g_scan_results_size,
    timer,              \* g_scan_result_timer is active
    g_scan_result_timeout,
    scan_request,       \* number of the last request
    status,             \* of the running callback, "none" outside of one
    report,             \* what stats_scan_get returned to the callback
    pending,            \* scans accepted and neither answered nor stopped
    polls,              \* polls with EAGAIN since the last start
    starts, failures

driverVars == <<driver, hal_table>>
resultVars == <<g_scan_results, g_scan_results_size>>
timerVars == <<timer, g_scan_result_timeout>>
boundVars == <<starts, failures>>
scanVars == <<driverVars, resultVars, timerVars, scan_request, status, report,
          pending, polls, boundVars>>

ScanInit ==
    /\ driver = "idle"
    /\ hal_table \in Tables
    /\ g_scan_results = NoResults /\ g_scan_results_size = 0
    /\ timer = FALSE /\ g_scan_result_timeout = 0
    /\ scan_request = NoRequest
    /\ status = "none"
    /\ report = <<>>
    /\ pending = {}
    /\ polls = 0
    /\ starts = 0 /\ failures = 0

HalCallFails ==
    /\ failures < MaxFailures
    /\ failures' = failures + 1

-----------------------------------------------------------------------------
(* The driver.                                                             *)

ScanDone ==
    /\ driver = "scanning"
    /\ driver' = "idle"
    /\ hal_table' \in Tables
    /\ UNCHANGED <<resultVars, timerVars, scan_request, status, report, pending,
                   polls, boundVars>>

ScanFails ==
    /\ driver = "scanning"
    /\ HalCallFails
    /\ driver' = "failed"
    /\ UNCHANGED <<hal_table, resultVars, timerVars, scan_request, status, report,
                   pending, polls, starts>>

-----------------------------------------------------------------------------
(* The calls of the Stats Manager, from its own timers or in the callback. *)

\* Mutated form: the time left is not set.
stats_scan_start_keeps_timeout ==
    /\ pending = {}
    /\ starts < MaxStarts
    /\ starts' = starts + 1
    /\ driver' = "scanning"
    /\ scan_request' = starts'
    /\ timer' = TRUE
    /\ g_scan_result_timeout' =
         IF g_scan_result_timeout = 0 THEN STATS_SCAN_RESULT_POLL_TIMEOUT
                                      ELSE g_scan_result_timeout
    /\ pending' = {starts'}
    /\ polls' = 0
    /\ UNCHANGED <<hal_table, resultVars, status, report, failures>>

\* The channels are for the driver only.
stats_scan_start ==
    /\ pending = {}
    /\ starts < MaxStarts
    /\ starts' = starts + 1
    /\ driver' = "scanning"
    /\ scan_request' = starts'
    /\ timer' = TRUE
    /\ g_scan_result_timeout' = STATS_SCAN_RESULT_POLL_TIMEOUT
    /\ pending' = {starts'}
    /\ polls' = 0
    /\ UNCHANGED <<hal_table, resultVars, status, report, failures>>

\* stats_scan_initiate fails, before anything is set.
stats_scan_start_fails ==
    /\ pending = {}
    /\ starts < MaxStarts
    /\ starts' = starts + 1
    /\ HalCallFails
    /\ UNCHANGED <<driverVars, resultVars, timerVars, scan_request, status, report,
                   pending, polls>>

\* The driver is not told and scans on.
stats_scan_stop ==
    /\ pending # {}
    /\ pending' = {}
    /\ timer' = FALSE
    /\ UNCHANGED <<driverVars, resultVars, g_scan_result_timeout, scan_request,
                   status, report, polls, boundVars>>

\* The records that fit the array on the stack are converted, whatever their
\* channels.
stats_scan_hal_to_dpp_record_array(hal_array, hal_num) ==
    SubSeq(hal_array, 1, IF hal_num <= STATS_SCAN_MAX_RECORDS
                           THEN hal_num ELSE STATS_SCAN_MAX_RECORDS)

\* Mutated form: an access point is listed on one channel only.
stats_scan_extract_neighbors_from_ssids_bssid(chan_list, scan_results) ==
    LET Add(list, rec) ==
          IF rec.chan \in chan_list /\ ~\E i \in DOMAIN list : list[i].bssid = rec.bssid
            THEN Append(list, rec) ELSE list
    IN  FoldLeft(Add, <<>>, scan_results)

\* The loop over the records marks the later duplicates of one it keeps.
stats_scan_extract_neighbors_from_ssids(chan_list, scan_results) ==
    LET Duplicate(list, rec) ==
          \E i \in DOMAIN list : list[i].chan = rec.chan /\ list[i].bssid = rec.bssid
        Add(list, rec) ==
          IF rec.chan \in chan_list /\ ~Duplicate(list, rec)
            THEN Append(list, rec) ELSE list
    IN  FoldLeft(Add, <<>>, scan_results)

\* The callback of a scan that succeeded fetches the neighbors.
stats_scan_get(chan_list) ==
    /\ status = "success"
    /\ report' = stats_scan_extract_neighbors_from_ssids(
                   chan_list,
                   stats_scan_hal_to_dpp_record_array(g_scan_results,
                                                      g_scan_results_size))
    /\ UNCHANGED <<driverVars, resultVars, timerVars, scan_request, status, pending,
                   polls, boundVars>>

CallbackReturns ==
    /\ status # "none"
    /\ status' = "none"
    /\ report' = <<>>
    /\ UNCHANGED <<driverVars, resultVars, timerVars, scan_request, pending,
                   polls, boundVars>>

-----------------------------------------------------------------------------
(* stats_scan_results_fetch, when the timer fires.                         *)

Fires == timer /\ status = "none"

\* The exit of the handler: the timer is stopped and the callback called.
Answer(scan_status) ==
    /\ timer' = FALSE
    /\ g_scan_result_timeout' = STATS_SCAN_RESULT_POLL_TIMEOUT
    /\ status' = scan_status
    /\ pending' = pending \ {scan_request}

PollResults ==
    /\ Fires
    /\ driver = "idle"
    /\ g_scan_results' = hal_table
    /\ g_scan_results_size' = Len(hal_table)
    /\ Answer("success")
    /\ UNCHANGED <<driverVars, scan_request, report, polls, boundVars>>

\* Mutated form: the count is not looked at.
PollInProgressForever ==
    /\ Fires
    /\ driver = "scanning"
    /\ g_scan_results' = NoResults
    /\ UNCHANGED <<timerVars, status, pending, polls, driverVars,
                   g_scan_results_size, scan_request, report, boundVars>>

\* Mutated form: the time is never up.
PollInProgressUnchecked ==
    /\ Fires
    /\ driver = "scanning"
    /\ g_scan_results' = NoResults
    /\ polls' = polls + 1
    /\ g_scan_result_timeout' = g_scan_result_timeout - 1
    /\ UNCHANGED <<timer, status, pending, driverVars, g_scan_results_size,
                   scan_request, report, boundVars>>

\* EAGAIN: come back later, unless the time is up.
PollInProgress ==
    /\ Fires
    /\ driver = "scanning"
    /\ g_scan_results' = NoResults
    /\ polls' = polls + 1
    /\ IF g_scan_result_timeout - 1 > 0
         THEN /\ g_scan_result_timeout' = g_scan_result_timeout - 1
              /\ UNCHANGED <<timer, status, pending>>
         ELSE Answer("failure")
    /\ UNCHANGED <<driverVars, g_scan_results_size, scan_request, report, boundVars>>

\* The scan failed, or its result is too big.
PollError ==
    /\ Fires
    /\ driver = "failed"
    /\ g_scan_results' = NoResults
    /\ Answer("failure")
    /\ UNCHANGED <<driverVars, g_scan_results_size, scan_request, report, polls,
                   boundVars>>

\* The radio's index cannot be found: the last results are not even freed.
PollRadioFails ==
    /\ Fires
    /\ HalCallFails
    /\ Answer("failure")
    /\ UNCHANGED <<driverVars, resultVars, scan_request, report, polls, starts>>

stats_scan_results_fetch ==
    PollResults \/ PollInProgress \/ PollError \/ PollRadioFails

ScanNext ==
    \/ ScanDone \/ ScanFails
    \/ stats_scan_start \/ stats_scan_start_fails \/ stats_scan_stop
    \/ \E chan_list \in ChanLists : stats_scan_get(chan_list)
    \/ CallbackReturns
    \/ stats_scan_results_fetch

-----------------------------------------------------------------------------
(* Properties.                                                             *)

ScanTypeOK ==
    /\ driver \in {"idle", "scanning", "failed"}
    /\ hal_table \in Seq(Neighbor)
    /\ g_scan_results \in Seq(Neighbor) \cup {NoResults}
    /\ g_scan_results_size \in Nat
    /\ timer \in BOOLEAN
    /\ g_scan_result_timeout \in 0 .. STATS_SCAN_RESULT_POLL_TIMEOUT
    /\ scan_request \in Scans \cup {NoRequest}
    /\ status \in {"none", "success", "failure"}
    /\ report \in Seq(Neighbor)
    /\ pending \subseteq Scans
    /\ polls \in Nat
    /\ starts \in 0 .. MaxStarts /\ failures \in 0 .. MaxFailures

\* The timer runs exactly while a scan waits for its answer, whoever starts or
\* stops a scan inside a callback, and every scan has the whole time to wait,
\* also after a scan that was stopped half way, and not more.  stats_scan_start
\* relies on the first: ev_init of an active timer corrupts libev's heap.
TimerServesScan ==
    /\ timer <=> pending # {}
    /\ timer => polls + g_scan_result_timeout = STATS_SCAN_RESULT_POLL_TIMEOUT

Key(e) == <<e.bssid, e.chan>>

\* The report has every access point the driver listed on a scanned channel
\* once per channel, and no other, as long as the driver's table, which is of
\* all channels, fits the array.
ReportComplete ==
    [][\A chan_list \in ChanLists :
         /\ stats_scan_get(chan_list)
         /\ g_scan_results_size <= STATS_SCAN_MAX_RECORDS
         => /\ {Key(report'[i]) : i \in DOMAIN report'}
                 = {Key(e) : e \in {n \in ToSet(g_scan_results) : n.chan \in chan_list}}
            /\ \A i, j \in DOMAIN report' :
                 Key(report'[i]) = Key(report'[j]) => i = j ]_scanVars

\* Every scan is answered or stopped, even when the driver never finishes.
EventuallyAnswered == \A s \in Scans : []<>(s \notin pending)
=============================================================================
