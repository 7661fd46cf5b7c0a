--------------------------- MODULE RuntimeSignals ---------------------------
(***************************************************************************)
(* The runtime-signals report (internal/application/usecases/              *)
(* runtime_signals.go with the thresholds of internal/domain/policy/       *)
(* runtime_signals.go): one fleet-wide query to Loki, then up to three     *)
(* queries to Prometheus for each monitored service.                       *)
(*                                                                         *)
(* A rate is kept in per cent of a service's requests.  NaN is a value of  *)
(* its own: every comparison with it is false, as in IEEE arithmetic.      *)
(***************************************************************************)
EXTENDS Integers, Sequences, FiniteSets, SequencesExt

CONSTANTS
    Services,    \* the monitored services, in configured order
    LogLimit,    \* the most lines one query to Loki returns
    LogStores,   \* the error lines Loki may hold, newest first
    Totals,      \* the requests of a service in the window
    Errors,      \* its 5xx answers
    Latencies,   \* its p99 in milliseconds
    NaN          \* what Prometheus says of a quantile over no request

ASSUME LogLimitAssumption == LogLimit \in Nat \ {0}

\* loadRuntimeSignalsServices never leaves the list empty (Agent, ConfigUsable).
ASSUME ServicesAssumption == Services \in Seq(STRING) /\ Services # <<>>

\* Labels are strings, counts are counts, and NaN is no number.
ASSUME TelemetryAssumption ==
    /\ LogStores \subseteq Seq([app : STRING, container : STRING])
    /\ Totals \subseteq Nat /\ Errors \subseteq Nat
    /\ Latencies \subseteq Nat \cup {NaN} /\ NaN \notin Int

VARIABLES
    rstep,       \* what Execute does next
    telemetry,   \* the telemetry reader: "nil", "stub" or "prometheus"
    logs,        \* the log reader: "nil" or "loki"
    counts,      \* error lines per service
    svc,         \* the service it is at
    total,       \* its requests
    rate,        \* its error rate
    queryFailed, \* telemetryFailed
    signals,     \* the ServiceSignals
    missing,     \* UnavailableSources
    asked        \* history: what Loki holds and what Prometheus answered

runtimeVars == <<rstep, telemetry, logs, counts, svc, total, rate, queryFailed,
                 signals, missing, asked>>

ServiceIds == DOMAIN Services
Queries == {"total", "errors", "latency"}

RuntimeInit ==
    /\ rstep = "idle"
    /\ telemetry \in {"nil", "stub", "prometheus"} /\ logs \in {"nil", "loki"}
    /\ counts = [s \in ToSet(Services) |-> 0]
    /\ svc = 1 /\ total = 0 /\ rate = 0 /\ queryFailed = FALSE
    /\ signals = <<>> /\ missing = <<>>
    /\ asked = [loki |-> <<>>, services |-> [i \in ServiceIds |-> [q \in Queries |-> <<>>]]]

-----------------------------------------------------------------------------
(* The thresholds.                                                         *)

AtLeast(x, bound) == x # NaN /\ x >= bound

ClassifyErrorRate(r) ==
    IF AtLeast(r, 5) THEN "critical" ELSE IF AtLeast(r, 1) THEN "warning" ELSE "normal"

ClassifyLatencyP99(ms) ==
    IF AtLeast(ms, 3000) THEN "critical" ELSE IF AtLeast(ms, 1000) THEN "warning" ELSE "normal"

SignalRank == [normal |-> 0, warning |-> 1, critical |-> 2]
Worse(a, b) == SignalRank[a] > SignalRank[b]

\* Mutant: the latency replaces the error rate instead of competing with it.
SeverityOfLast(sig) ==
    LET sev == sig.latencySev
    IN  IF sig.logs > 0 /\ Worse("warning", sev) THEN "warning" ELSE sev

\* ServiceSignal.Severity: the worst of the three signals.
SeverityOf(sig) ==
    LET sev == IF Worse(sig.latencySev, sig.rateSev) THEN sig.latencySev ELSE sig.rateSev
    IN  IF sig.logs > 0 /\ Worse("warning", sev) THEN "warning" ELSE sev

-----------------------------------------------------------------------------
(* Execute.                                                                *)

ExecuteRuntime ==
    /\ rstep = "idle"
    /\ rstep' = "logs"
    /\ UNCHANGED <<telemetry, logs, counts, svc, total, rate, queryFailed, signals, missing, asked>>

\* Loki answers its newest lines first and at most LogLimit of them.
\* A line carries the labels app and container, "" when missing.
Newest(lines) == SubSeq(lines, 1, IF Len(lines) < LogLimit THEN Len(lines) ELSE LogLimit)
Attributed(line) == IF line.app # "" THEN line.app ELSE line.container

CollectErrorLogs ==
    /\ rstep = "logs" /\ logs = "loki"
    /\ \E lines \in LogStores :
           /\ counts' = [s \in ToSet(Services) |->
                            Cardinality({k \in DOMAIN Newest(lines) :
                                             Attributed(Newest(lines)[k]) = s})]
           /\ asked' = [asked EXCEPT !.loki = lines]
    /\ rstep' = "total"
    /\ UNCHANGED <<telemetry, logs, svc, total, rate, queryFailed, signals, missing>>

\* No log reader, or the query failed.
LogsUnavailable ==
    /\ rstep = "logs"
    /\ missing' = Append(missing, "loki")
    /\ rstep' = "total"
    /\ UNCHANGED <<telemetry, logs, counts, svc, total, rate, queryFailed, signals, asked>>

\* A query to Prometheus and what sumFirst makes of it: a value and whether
\* the query succeeded.  A transport error, a status, a result of another type
\* and a value that does not parse all fail it; "NaN" parses.
Queried(values) ==
    {[value |-> v, ok |-> TRUE] : v \in values} \cup {[value |-> 0, ok |-> FALSE]}

\* The stub reader answers no sample at all, which sums to zero.
NoSample == [value |-> 0, ok |-> TRUE]

Sampled(values) == IF telemetry = "stub" THEN {NoSample} ELSE Queried(values)

Heard(q, sample) ==
    asked' = [asked EXCEPT !.services[svc] = [@ EXCEPT ![q] = <<sample>>]]

\* errorRate: the second query is only made for a service with requests.
ErrorRateTotal ==
    /\ rstep = "total" /\ telemetry # "nil"
    /\ \E t \in Sampled(Totals) :
           /\ total' = t.value
           /\ queryFailed' = (queryFailed \/ ~t.ok)
           /\ rstep' = IF t.value <= 0 THEN "latency" ELSE "errors"
           /\ Heard("total", t)
    /\ rate' = 0
    /\ UNCHANGED <<telemetry, logs, counts, svc, signals, missing>>

ErrorRate ==
    /\ rstep = "errors"
    /\ \E e \in Sampled(Errors) :
           /\ rate' = (100 * e.value) \div total
           /\ queryFailed' = (queryFailed \/ ~e.ok)
           /\ Heard("errors", e)
    /\ rstep' = "latency"
    /\ UNCHANGED <<telemetry, logs, counts, svc, total, signals, missing>>

ServiceSignal(i, r, ms, lines) ==
    [service |-> Services[i], rate |-> r, latency |-> ms, logs |-> lines,
     rateSev |-> ClassifyErrorRate(r), latencySev |-> ClassifyLatencyP99(ms)]

AddSignal(sig) ==
    /\ signals' = Append(signals, sig)
    /\ svc' = svc + 1
    /\ rstep' = IF svc < Len(Services) THEN "total" ELSE "report"

\* Mutant: only the last service decides whether Prometheus is reported.
LatencyP99Forgetting ==
    /\ rstep = "latency"
    /\ \E l \in Sampled(Latencies) :
           /\ AddSignal(ServiceSignal(svc, rate, l.value, counts[Services[svc]]))
           /\ queryFailed' = ~l.ok
           /\ Heard("latency", l)
    /\ UNCHANGED <<telemetry, logs, counts, total, rate, missing>>

\* latencyP99, and the end of the loop's body.
LatencyP99 ==
    /\ rstep = "latency"
    /\ \E l \in Sampled(Latencies) :
           /\ AddSignal(ServiceSignal(svc, rate, l.value, counts[Services[svc]]))
           /\ queryFailed' = (queryFailed \/ ~l.ok)
           /\ Heard("latency", l)
    /\ UNCHANGED <<telemetry, logs, counts, total, rate, missing>>

\* Without a telemetry reader a service is reported with its log lines only.
WithoutTelemetry ==
    /\ rstep = "total" /\ telemetry = "nil"
    /\ AddSignal(ServiceSignal(svc, 0, 0, counts[Services[svc]]))
    /\ UNCHANGED <<telemetry, logs, counts, total, rate, queryFailed, missing, asked>>

ReportSignals ==
    /\ rstep = "report"
    /\ missing' = IF telemetry = "nil" \/ queryFailed THEN Append(missing, "prometheus") ELSE missing
    /\ rstep' = "done"
    /\ UNCHANGED <<telemetry, logs, counts, svc, total, rate, queryFailed, signals, asked>>

RuntimeNext ==
    \/ ExecuteRuntime \/ CollectErrorLogs \/ LogsUnavailable
    \/ ErrorRateTotal \/ ErrorRate \/ LatencyP99 \/ WithoutTelemetry \/ ReportSignals

-----------------------------------------------------------------------------
(* What the report promises.                                               *)

\* How bad service i is, from what Prometheus answered about it and the lines
\* Loki holds.  A line of its own is overlooked only when LogLimit newer ones,
\* of any service, come before it.
Grade(i) ==
    LET a         == asked.services[i]
        lines     == {k \in DOMAIN asked.loki : k <= LogLimit /\ Attributed(asked.loki[k]) = Services[i]}
        known(q)  == a[q] # <<>> /\ a[q][1].ok /\ a[q][1].value # NaN
        failing(p) == known("errors") /\ 100 * a["errors"][1].value >= p * a["total"][1].value
        slow(ms)  == known("latency") /\ a["latency"][1].value >= ms
    IN  IF failing(5) \/ slow(3000) THEN "critical"
        ELSE IF failing(1) \/ slow(1000) \/ lines # {} THEN "warning" ELSE "normal"

\* Execute, Severity: whichever queries fail, every monitored service is
\* reported once and in order, as bad as the answers about it alone say.
SignalsTrue ==
    rstep = "done" =>
        /\ [i \in DOMAIN signals |-> signals[i].service] = Services
        /\ \A i \in ServiceIds : SeverityOf(signals[i]) = Grade(i)

\* The report as a PartialReport: a part per source, Prometheus settled by
\* the last of its queries.
SignalOutcome(source) ==
    IF source = "loki"
    THEN IF rstep \in {"idle", "logs"} THEN "pending"
         ELSE IF "loki" \in ToSet(missing) THEN "failed" ELSE "answered"
    ELSE IF rstep \notin {"report", "done"} THEN "pending"
    ELSE IF telemetry = "nil"
              \/ \E i \in ServiceIds, q \in Queries :
                     asked.services[i][q] # <<>> /\ ~asked.services[i][q][1].ok
    THEN "failed" ELSE "answered"
SignalShown(source) ==
    IF rstep # "done" THEN "nothing"
    ELSE IF source \in ToSet(missing) THEN "failed" ELSE "answered"

SignalReport == INSTANCE PartialReport WITH
    Parts <- {"loki", "prometheus"},
    outcome <- [p \in {"loki", "prometheus"} |-> SignalOutcome(p)],
    shown <- [p \in {"loki", "prometheus"} |-> SignalShown(p)]

\* Execute: a source is reported unavailable exactly when it is missing or
\* one of its queries failed, and the report comes out all the same: it
\* implements PartialReport.
SignalsDegrade == SignalReport!Spec
=============================================================================
