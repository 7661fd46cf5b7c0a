------------------------------ MODULE Inbound ------------------------------
(***************************************************************************)
(* The two driving adapters (internal/adapters/inbound/http/router.go and  *)
(* internal/adapters/inbound/mcp/tools.go) in front of the daily brief,    *)
(* the runtime signals and the order lookup, which run here step by step.  *)
(* The advisory, the stranded-reservation detection and the dashboards     *)
(* have modules of their own: here they answer or fail.                    *)
(*                                                                         *)
(* The handlers share nothing, so one request in flight shows everything   *)
(* an adapter does.                                                        *)
(***************************************************************************)
EXTENDS DailyBrief, RuntimeSignals, OrderLifecycle

CONSTANTS
    Deployments,     \* the wirings a process may start with: <<wired, telemetry, logs, holds>>
    Requests,        \* the requests a caller may make
    Now,             \* the time of the request
    ReportWindow,    \* DefaultReportWindow
    Distances        \* what facility-layout may answer, in metres

ASSUME WindowAssumption == Now \in Int /\ ReportWindow \in Nat \ {0}

\* The bounds of a dashboard's window are times, when they can be read at all.
ASSUME RequestAssumption ==
    \A r \in Requests : r.route = "/reports" =>
        {r.from, r.to} \subseteq [is : {"given", "absent", "malformed"}, time : Int]

VARIABLES
    holds,  \* the optional use cases the adapters were given
    req,    \* the request in flight
    reply   \* its answer

inboundVars == <<holds, req, reply>>
vars == <<inboundVars, briefVars, runtimeVars, lifecycleVars>>

NoReply == [status |-> "none", body |-> <<>>]
HttpRoutes == {"/healthz", "/daily-brief", "/flow-balance", "/explain-travel-factor",
               "/lifecycle", "/reports", "/runtime-signals"}
Tools == {"get_daily_brief", "list_open_exceptions", "get_flow_balance_exception",
          "explain_travel_factor", "detect_stranded_reservation"}

\* The optional use case behind a route or a tool, "" when there is none.
UseCase(route) ==
    CASE route \in {"/flow-balance", "get_flow_balance_exception"} -> "flow_balance"
      [] route \in {"/explain-travel-factor", "explain_travel_factor"} -> "travel_factor"
      [] route = "/lifecycle" -> "lifecycle"
      [] route = "/reports" -> "reports"
      [] route = "/runtime-signals" -> "runtime"
      [] route = "detect_stranded_reservation" -> "stranded"
      [] OTHER -> ""

Init ==
    /\ BriefInit /\ RuntimeInit /\ LifecycleInit
    /\ \E d \in Deployments : wired = d[1] /\ telemetry = d[2] /\ logs = d[3] /\ holds = d[4]
    /\ req \in Requests
    /\ reply = NoReply

-----------------------------------------------------------------------------
(* Dispatch.                                                               *)

Held == UseCase(req.route) = "" \/ UseCase(req.route) \in holds
Serving(routes) == reply = NoReply /\ req.route \in routes /\ Held
Answer(status, body) == reply' = [status |-> status, body |-> body]
Ok == IF req.route \in HttpRoutes THEN "200" ELSE "result"
Bad == IF req.route \in HttpRoutes THEN "400" ELSE "tool error"

inert == <<holds, req, briefVars, runtimeVars, lifecycleVars>>

\* A use case that is not wired: 503 over HTTP; its tool is not registered.
NotWired ==
    /\ reply = NoReply /\ ~Held
    /\ Answer(IF req.route \in HttpRoutes THEN "503" ELSE "unknown tool", <<>>)
    /\ UNCHANGED inert

Healthz ==
    /\ Serving({"/healthz"})
    /\ Answer("200", "ok")
    /\ UNCHANGED inert

-----------------------------------------------------------------------------
(* The daily brief and its exceptions.                                     *)

BriefRoutes == {"/daily-brief", "get_daily_brief", "list_open_exceptions"}
Severities == [critical |-> 0, warning |-> 1, info |-> 2]

\* An unknown severity is refused before the brief is asked for.
Refused == req.route = "list_open_exceptions" /\ req.severity \notin DOMAIN Severities \cup {""}

RefuseSeverity ==
    /\ Serving(BriefRoutes) /\ Refused
    /\ Answer("tool error", <<>>)
    /\ UNCHANGED inert

RunDailyBrief ==
    /\ Serving(BriefRoutes) /\ ~Refused
    /\ BriefNext
    /\ UNCHANGED <<inboundVars, runtimeVars, lifecycleVars>>

ReplyDailyBrief ==
    /\ Serving({"/daily-brief", "get_daily_brief"}) /\ bstep = "done"
    /\ Answer(Ok, [sites |-> sites, paths |-> paths, openExceptions |-> open])
    /\ UNCHANGED inert

\* Mutant: the minimum severity itself is left out.
AtLeastSevereStrict(e, severity) ==
    severity = "" \/ Severities[e.severity] < Severities[severity]

AtLeastSevere(e, severity) ==
    severity = "" \/ Severities[e.severity] <= Severities[severity]

ReplyOpenExceptions ==
    /\ Serving({"list_open_exceptions"}) /\ bstep = "done"
    /\ Answer(Ok, Only(open, {e \in ToSet(open) : AtLeastSevere(e, req.severity)}))
    /\ UNCHANGED inert

-----------------------------------------------------------------------------
(* Runtime signals.                                                        *)

RunRuntimeSignals ==
    /\ Serving({"/runtime-signals"})
    /\ RuntimeNext
    /\ UNCHANGED <<inboundVars, briefVars, lifecycleVars>>

\* encoding/json refuses NaN, and writeJSON has sent the status already and
\* drops the error: the body stays empty.
Encodable == \A i \in DOMAIN signals : signals[i].latency # NaN

ToRuntimeSignalsDTO ==
    [i \in DOMAIN signals |-> [service |-> signals[i].service, severity |-> SeverityOf(signals[i])]]

ReplyRuntimeSignals ==
    /\ Serving({"/runtime-signals"}) /\ rstep = "done"
    /\ Answer("200", IF Encodable THEN ToRuntimeSignalsDTO ELSE <<>>)
    /\ UNCHANGED inert

-----------------------------------------------------------------------------
(* The order lookup.                                                       *)

RunLifecycle ==
    /\ Serving({"/lifecycle"})
    /\ LifecycleNext
    /\ UNCHANGED <<inboundVars, briefVars, runtimeVars>>

\* A completed SLAM task seals and labels the package.
Sealed(list) == \E i \in DOMAIN list : list[i] = "SLAM completed"

ToOrderLifecycleDTO ==
    [stages |-> stages,
     sealed |-> "fulfillment" \in DOMAIN stages /\ Sealed(stages["fulfillment"])]

\* An error other than 404 cannot come out of the use case.
ReplyLifecycle ==
    /\ Serving({"/lifecycle"}) /\ ostep = "done"
    /\ IF verdict = "not_found" THEN Answer("404", <<>>)
       ELSE Answer("200", ToOrderLifecycleDTO)
    /\ UNCHANGED inert

-----------------------------------------------------------------------------
(* The use cases modelled elsewhere, and the travel factor.                *)

\* The tool's answer leaves the utilization overlay out.
ToFlowBalanceExceptionDTO(overlay) == [utilization |-> overlay]

GetFlowBalanceException ==
    /\ Serving({"/flow-balance"})
    /\ \/ Answer(Bad, <<>>)
       \/ \E overlay \in BOOLEAN : Answer(Ok, ToFlowBalanceExceptionDTO(overlay))
    /\ UNCHANGED inert

FlowBalanceTool ==
    /\ Serving({"get_flow_balance_exception"})
    /\ Answer(Bad, <<>>) \/ Answer(Ok, ToFlowBalanceExceptionDTO(FALSE))
    /\ UNCHANGED inert

\* An unknown task type is an error of the caller; a revoke carries its blast
\* radius.
StrandedReservation ==
    /\ Serving({"detect_stranded_reservation"})
    /\ \/ Answer(Bad, <<>>)
       \/ \E revoke \in BOOLEAN : Answer(Ok, [blastRadius |-> revoke])
    /\ UNCHANGED inert

\* CorrelateTravelFactor.
TravelKind(metres) == IF metres > 60 THEN "travel_significant" ELSE "travel_negligible"

ToTravelFactorDTO(metres, kind) == [metres |-> metres, kind |-> kind]

\* Without facility-layout the answer is empty and the question not checked.
ExplainTravelFactor ==
    /\ Serving({"/explain-travel-factor", "explain_travel_factor"})
    /\ IF "facility" \notin wired THEN Answer(Ok, ToTravelFactorDTO(0, ""))
       ELSE IF req.codes # "both" THEN Answer(Bad, <<>>)
       ELSE \/ Answer(Bad, <<>>)
            \/ \E m \in Distances : Answer(Ok, ToTravelFactorDTO(m, TravelKind(m)))
    /\ UNCHANGED inert

\* A bound is a time that is given, or absent, or malformed.
ParsesAsTime(bound) == bound.is # "malformed"

ResolveWindow(from, to) ==
    LET resolvedTo == IF to.is = "given" THEN to.time ELSE Now
    IN  [to |-> resolvedTo,
         from |-> IF from.is = "given" THEN from.time ELSE resolvedTo - ReportWindow]

\* serveDashboard: a malformed bound or an empty window is the caller's error;
\* otherwise every section is asked about the same window.
ServeDashboard ==
    /\ Serving({"/reports"})
    /\ IF ~ParsesAsTime(req.from) \/ ~ParsesAsTime(req.to) THEN Answer("400", <<>>)
       ELSE LET w == ResolveWindow(req.from, req.to)
            IN  IF w.to > w.from THEN Answer("200", w) ELSE Answer("400", <<>>)
    /\ UNCHANGED inert

Finished == reply # NoReply /\ UNCHANGED vars

Next ==
    \/ NotWired \/ Healthz
    \/ RefuseSeverity \/ RunDailyBrief \/ ReplyDailyBrief \/ ReplyOpenExceptions
    \/ RunRuntimeSignals \/ ReplyRuntimeSignals
    \/ RunLifecycle \/ ReplyLifecycle
    \/ GetFlowBalanceException \/ FlowBalanceTool \/ StrandedReservation \/ ExplainTravelFactor \/ ServeDashboard
    \/ Finished

Spec == Init /\ [][Next]_vars

-----------------------------------------------------------------------------
(* What the adapters promise.                                              *)

\* listOpenExceptions: an unknown severity is refused before any context is
\* read; otherwise the answer is every open exception of the brief from the
\* asked severity up, worst first, and nothing else.
ListTrue ==
    IF req.severity \notin {"", "info", "warning", "critical"}
    THEN reply.status = "tool error" /\ bstep = "idle"
    ELSE /\ reply.status = "result" /\ bstep = "done"
         /\ reply.body = IF req.severity = "critical"
                         THEN SubSeq(open, 1, Cardinality({i \in DOMAIN open :
                                                  open[i].severity = "critical"}))
                         ELSE open

\* getOrderLifecycle: 404 is order-management's word alone, and a package is
\* sealed exactly when some work unit that answered has a completed SLAM task.
LookupTrue ==
    IF lookups.order = "not_found" THEN reply.status = "404"
    ELSE /\ reply.status = "200"
         /\ reply.body.sealed <=> \E k \in DOMAIN lookups.tasks :
                                     "SLAM completed" \in ToSet(lookups.tasks[k])

\* serveDashboard: a window that is answered is not empty, keeps the bounds
\* the caller gave and is a day long when it gave only its end.
WindowTrue ==
    reply.status = "200" =>
        LET w == reply.body IN
        /\ w.from < w.to
        /\ req.from.is = "given" => w.from = req.from.time
        /\ req.to.is = "given" => w.to = req.to.time
        /\ req.from.is = "absent" => w.to - w.from = ReportWindow
        /\ "malformed" \notin {req.from.is, req.to.is}

\* The adapters answer what the use cases found: the filtered list, the
\* verdict on an order and the window of a dashboard are what the caller
\* asked about, whatever failed on the way.
RepliesTrue ==
    reply # NoReply /\ Held =>
        /\ req.route = "list_open_exceptions" => ListTrue
        /\ req.route = "/lifecycle" => LookupTrue
        /\ req.route = "/reports" => WindowTrue

\* errorRate, latencyP99: "a single service's missing telemetry never blocks
\* the rest of the report".
ReportDelivered ==
    reply.status = "200" /\ req.route = "/runtime-signals"
        => Len(reply.body) = Len(Services)
=============================================================================
