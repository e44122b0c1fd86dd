---------------------------- MODULE StatsDeltas ----------------------------
(***************************************************************************)
(* What stats.c makes of the driver's counters.                            *)
(*                                                                         *)
(* The Stats Manager reads a client's counters and a channel's survey from *)
(* time to time, keeps the last record of each, and has the difference     *)
(* computed.  A client's counters start again when it reconnects, which    *)
(* the HAL shows by a new cookie, and may start again for no reason, which *)
(* the library guesses from a counter that went back; the guess changes    *)
(* the record that the next difference is computed with.  Differences are  *)
(* cut to 32 bits.  Survey counters are cumulative or not, a build option  *)
(* per scan type, and 64 or 32 bits wide.                                  *)
(***************************************************************************)
EXTENDS Integers

CONSTANTS
    Counters,             \* cli_tx_bytes and so on
    WORD,               \* 2^32
    Amounts,            \* traffic between two events
    Times,              \* channel time between two events
    SurveyStart,        \* what the survey counters start at
    MaxChanges          \* bound: changes of the driver's counters

ASSUME DeltasAssumption ==
    /\ WORD \in Nat \ {0}
    /\ Amounts \subseteq Nat /\ Times \subseteq Nat /\ SurveyStart \in Nat
    /\ MaxChanges \in Nat

ScanTypes == {"onchan", "offchan"}

VARIABLES
    hw,                 \* the client's cookie and counters in the HAL
    data_old,           \* the record of the last reading
    reported,           \* sum of the reported differences
    carried,            \* traffic of the client, over all connections
    lost,               \* traffic since the last reading of an ended connection
    glitch,             \* the driver reset a counter or a difference was cut
    survey,             \* channel time counters in the driver, not cut
    survey_old,         \* the record of the last survey
    survey_record,      \* the last result, and the interval it is about
    read,               \* the driver's counters at the last survey
    restarted,          \* the driver's counters restarted since then
    cumulative,         \* CONFIG_RDK_CUMULATIVE_SURVEY_* of the build
    changes

trafficVars == <<hw, data_old, reported, carried, lost, glitch>>
surveyVars == <<survey, survey_old, survey_record, read, restarted, cumulative>>
deltasVars == <<trafficVars, surveyVars, changes>>

Zero == [f \in Counters |-> 0]
NoTime == [active |-> 0, busy |-> 0]
NoRecord == [busy |-> 0, valid |-> FALSE, interval |-> NoTime, clean |-> FALSE]

DeltasInit ==
    /\ hw = [cookie |-> 1, stats |-> Zero]
    /\ data_old = [cookie |-> 0, stats |-> Zero]
    /\ reported = Zero /\ carried = Zero /\ lost = Zero
    /\ glitch = FALSE
    /\ survey = [t \in ScanTypes |-> [active |-> SurveyStart, busy |-> SurveyStart]]
    /\ survey_old = [t \in ScanTypes |-> NoTime]
    /\ survey_record = [t \in ScanTypes |-> NoRecord]
    /\ read = [t \in ScanTypes |-> NoTime]
    /\ restarted = [t \in ScanTypes |-> TRUE]
    /\ cumulative \in [ScanTypes -> BOOLEAN]
    /\ changes = 0

-----------------------------------------------------------------------------
(* The client and the driver.                                              *)

Changes == changes < MaxChanges /\ changes' = changes + 1

Sampled(f) == IF data_old.cookie = hw.cookie THEN data_old.stats[f] ELSE 0
Unsampled(f) == hw.stats[f] - Sampled(f)

Traffic(f, n) ==
    /\ Changes
    /\ hw' = [hw EXCEPT !.stats[f] = hw.stats[f] + n]
    /\ carried' = [carried EXCEPT ![f] = carried[f] + n]
    /\ UNCHANGED <<data_old, reported, lost, glitch, surveyVars>>

Reconnect ==
    /\ Changes
    /\ hw' = [cookie |-> hw.cookie + 1, stats |-> Zero]
    /\ lost' = [f \in Counters |-> lost[f] + Unsampled(f)]
    /\ UNCHANGED <<data_old, reported, carried, glitch, surveyVars>>

DriverReset(f) ==
    /\ Changes
    /\ hw' = [hw EXCEPT !.stats[f] = 0]
    /\ glitch' = TRUE
    /\ UNCHANGED <<data_old, reported, carried, lost, surveyVars>>

-----------------------------------------------------------------------------
(* stats_clients_get and stats_clients_convert on one reading.  A client   *)
(* whose counters cannot be read is left out of the list.                  *)

Reading == hw

\* Mutated form: the old record is that of any connection.
ClearOldIgnoringCookie(data_new, old) == old.stats

\* The record of another connection counts as zero.
ClearOld(data_new, old) == IF data_new.cookie = old.cookie THEN old.stats ELSE Zero

\* ADD_DELTA: a counter that went back is zeroed in both records.
Inconsistent(data_new, old, f) == old[f] > data_new.stats[f]

NewAfter(data_new, old) ==
    [data_new EXCEPT !.stats =
       [f \in Counters |-> IF Inconsistent(data_new, old, f) THEN 0 ELSE data_new.stats[f]]]

Delta(data_new, old, f) ==
    IF Inconsistent(data_new, old, f) THEN 0
                                      ELSE (data_new.stats[f] - old[f]) % WORD

stats_clients_convert ==
    LET old == ClearOld(Reading, data_old)
    IN  /\ reported' = [f \in Counters |-> reported[f] + Delta(Reading, old, f)]
        /\ data_old' = NewAfter(Reading, old)
        /\ glitch' = (glitch \/ \E f \in Counters : Reading.stats[f] - old[f] >= WORD)
        /\ UNCHANGED <<hw, carried, lost, changes, surveyVars>>

-----------------------------------------------------------------------------
(* The survey.                                                             *)

ChannelTime(t, active, busy) ==
    /\ Changes
    /\ busy <= active
    /\ survey' = [survey EXCEPT ![t].active = survey[t].active + active,
                                ![t].busy = survey[t].busy + busy]
    /\ UNCHANGED <<survey_old, survey_record, read, restarted, cumulative, trafficVars>>

\* The driver starts to count again, as after a restart of the radio.
SurveyRestart(t) ==
    /\ Changes
    /\ survey' = [survey EXCEPT ![t] = NoTime]
    /\ read' = [read EXCEPT ![t] = NoTime]
    /\ restarted' = [restarted EXCEPT ![t] = TRUE]
    /\ UNCHANGED <<survey_old, survey_record, cumulative, trafficVars>>

\* stats_survey_bss_t has 64 bits, stats_survey_obss_t 32.
Width(t) == IF t = "onchan" THEN WORD * WORD ELSE WORD

\* Mutated form: cumulative counters are taken for one measurement.
XDELTA_ONESHOT(t, new, old) == new

XDELTA(t, new, old) == IF cumulative[t] THEN (new - old) % Width(t) ELSE new

PERCENT(t, v1, v2) == ((v1 * 100) % Width(t)) \div v2

\* stats_survey_get; one-shot counters restart with every reading.
SurveyReading(t) ==
    LET Counter(c, last) == (IF cumulative[t] THEN c ELSE c - last) % Width(t)
    IN  [active |-> Counter(survey[t].active, read[t].active),
         busy |-> Counter(survey[t].busy, read[t].busy)]

\* There is no result for an interval of no length.
stats_survey_convert(t) ==
    LET new == SurveyReading(t)
        active == XDELTA(t, new.active, survey_old[t].active)
        busy == XDELTA(t, new.busy, survey_old[t].busy)
    IN  /\ survey_old' = [survey_old EXCEPT ![t] = new]
        /\ survey_record' =
             [survey_record EXCEPT ![t] =
                [valid |-> active # 0,
                 busy |-> IF active = 0 THEN 0 ELSE PERCENT(t, busy, active),
                 interval |-> [active |-> survey[t].active - read[t].active,
                               busy |-> survey[t].busy - read[t].busy],
                 clean |-> ~restarted[t]]]
        /\ read' = [read EXCEPT ![t] = survey[t]]
        /\ restarted' = [restarted EXCEPT ![t] = FALSE]
        /\ UNCHANGED <<survey, cumulative, changes, trafficVars>>

ClientNext ==
    \/ \E f \in Counters, n \in Amounts : Traffic(f, n)
    \/ Reconnect
    \/ \E f \in Counters : DriverReset(f)
    \/ stats_clients_convert

SurveyNext ==
    \E t \in ScanTypes :
      \/ \E active, busy \in Times : ChannelTime(t, active, busy)
      \/ SurveyRestart(t)
      \/ stats_survey_convert(t)

-----------------------------------------------------------------------------
(* Properties.                                                             *)

DeltasTypeOK ==
    /\ hw \in [cookie : Nat, stats : [Counters -> Nat]]
    /\ data_old \in [cookie : Nat, stats : [Counters -> Nat]]
    /\ reported \in [Counters -> Nat] /\ carried \in [Counters -> Nat]
    /\ lost \in [Counters -> Int]
    /\ glitch \in BOOLEAN
    /\ \A t \in ScanTypes :
         /\ survey[t] \in [active : Nat, busy : Nat]
         /\ survey_old[t] \in [active : 0 .. Width(t) - 1, busy : 0 .. Width(t) - 1]
         /\ survey_record[t].valid \in BOOLEAN
         /\ survey_record[t].busy \in 0 .. Width(t) - 1
    /\ cumulative \in [ScanTypes -> BOOLEAN]
    /\ changes \in 0 .. MaxChanges

\* No traffic is reported twice: whatever restarts, and in whatever order with
\* the readings, the reports never sum up to more than the client carried.  And
\* none is left out: while the driver's counters are sound and no interval is
\* beyond 32 bits, the reports, what is not read yet and what the ends of
\* connections took with them are all there was.
TrafficAccounted ==
    \A f \in Counters :
      /\ reported[f] <= carried[f]
      /\ ~glitch => reported[f] + Unsampled(f) + lost[f] = carried[f]

\* The percentage is that of the interval between two readings, in either kind
\* of build and also when the counter wrapped in between, unless the driver's
\* counters restarted or a hundred times the busy time is beyond the width.
PercentCorrect ==
    \A t \in ScanTypes :
      LET r == survey_record[t]
      IN  r.valid /\ r.clean /\ r.interval.active < Width(t)
                  /\ r.interval.busy * 100 < Width(t)
            => /\ r.interval.active # 0
               /\ r.busy = (r.interval.busy * 100) \div r.interval.active
=============================================================================
