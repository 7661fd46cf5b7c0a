----------------------------- MODULE DailyBrief -----------------------------
(***************************************************************************)
(* The daily brief (internal/application/usecases/dailybrief.go with the   *)
(* rules of internal/domain/policy/dailybrief.go): for each configured     *)
(* path target, in order, four readings of three contexts, each of which   *)
(* may fail alone; the paths grouped by site; the exceptions of all paths  *)
(* ranked worst first.                                                     *)
(*                                                                         *)
(* A fact that is nil in the code is one missing from the domain of        *)
(* "fact".  Depths and head counts are reduced to the flag the rule reads, *)
(* evidence texts to the signal they stand for.                            *)
(***************************************************************************)
EXTENDS Integers, FiniteSets, Lists

CONSTANTS
    Targets,          \* the path targets: [site, processPath] in configured order
    BriefClients,     \* the sets of clients a brief may be wired with
    StaffingReadings, \* what get_staffing_gap may say of Understaffed
    StuckReadings     \* its count and the task types diagnose_stuck_tasks may list

ASSUME TargetsAssumption ==
    /\ Targets \in Seq([site : STRING, processPath : STRING])
    /\ StaffingReadings \subseteq BOOLEAN
    /\ StuckReadings \subseteq [count : Int, tasks : Seq(STRING)]

VARIABLES
    bstep,        \* what Execute does next
    wired,        \* the clients it was built with
    named,        \* list_sites answered: sites are shown with their names
    at,           \* the target it is at
    fact,         \* the facts gathered for it
    unavailable,  \* the sources that failed for it
    paths,        \* the path briefs, in the order of the targets
    sites,        \* the sites, in the order they were met, with their paths
    open,         \* the open exceptions
    heard         \* history: what each context answered, for each target

pathVars == <<fact, unavailable>>
briefVars == <<bstep, wired, named, at, pathVars, paths, sites, open, heard>>

TargetIds == DOMAIN Targets
Sources == {"backlog", "staffing", "queue", "stuck"}
Client == [backlog |-> "wes", staffing |-> "wfm", queue |-> "fe", stuck |-> "fe"]
After == [backlog |-> "staffing", staffing |-> "queue", queue |-> "stuck", stuck |-> "add"]
Nothing == <<>>

BriefInit ==
    /\ bstep = "idle" /\ wired \in BriefClients
    /\ named = FALSE /\ at = 0
    /\ fact = Nothing /\ unavailable = <<>>
    /\ paths = <<>> /\ sites = <<>> /\ open = <<>>
    /\ heard = [n \in TargetIds |-> Nothing]

-----------------------------------------------------------------------------
(* The correlation rule of internal/domain/policy/dailybrief.go.           *)

Fires(s, f) == s \in DOMAIN f /\ (IF s = "stuck" THEN f[s] > 0 ELSE f[s])

Evidence(s, f) == IF Fires(s, f) THEN <<s>> ELSE <<>>

\* A path is an exception when two independent signals fire together.
DeriveExceptions(n, f) ==
    LET evidence == Evidence("backlog", f) \o Evidence("staffing", f) \o Evidence("stuck", f)
    IN  IF Len(evidence) < 2 THEN <<>>
        ELSE <<[target |-> n, evidence |-> evidence,
                severity |-> IF Len(evidence) >= 3 THEN "critical" ELSE "warning"]>>

SynthesizePathBrief(n, f, failed) ==
    [target |-> n, fact |-> f, unavailable |-> failed, exceptions |-> DeriveExceptions(n, f)]

\* Mutant: an unlabelled path counts nothing instead of everything.
CountOwnTypeOnly(result, processPath) ==
    Cardinality({i \in DOMAIN result.tasks : result.tasks[i] = processPath})

\* The stuck tasks of this path: diagnose_stuck_tasks lists every queue's,
\* and its own count of them is taken for a path without a queue.
CountForPath(result, processPath) ==
    IF processPath = "" THEN result.count
    ELSE Cardinality({i \in DOMAIN result.tasks : result.tasks[i] = processPath})

-----------------------------------------------------------------------------
(* Execute and synthesizeOne.                                              *)

\* The target after k, or the ranking when there is none.
GoOn(k) ==
    /\ at' = k + 1
    /\ bstep' = IF k < Len(Targets) THEN "backlog" ELSE "rank"

ExecuteBrief ==
    /\ bstep = "idle"
    /\ bstep' = "list_sites"
    /\ UNCHANGED <<wired, named, at, pathVars, paths, sites, open, heard>>

\* facility-layout only gives the sites their names: its failure is ignored.
ListSites ==
    /\ bstep = "list_sites"
    /\ \E answers \in BOOLEAN : named' = (answers /\ "facility" \in wired)
    /\ GoOn(0)
    /\ UNCHANGED <<wired, pathVars, paths, sites, open, heard>>

\* A context answers the reading r, from which synthesizeOne takes v.
Answers(s, r, v) ==
    /\ Client[s] \in wired
    /\ fact' = [x \in DOMAIN fact \cup {s} |-> IF x = s THEN v ELSE fact[x]]
    /\ heard' = [heard EXCEPT ![at] = [x \in DOMAIN @ \cup {s} |-> IF x = s THEN r ELSE @[x]]]
    /\ UNCHANGED unavailable

Fails(s) ==
    /\ Client[s] \in wired
    /\ unavailable' = Append(unavailable, s)
    /\ UNCHANGED <<fact, heard>>

\* Without a client; fulfillment-execution is listed once for its two reads.
NotConfigured(s) ==
    /\ Client[s] \notin wired
    /\ unavailable' = IF s = "stuck" THEN unavailable ELSE Append(unavailable, Client[s])
    /\ UNCHANGED <<fact, heard>>

Asks(s) ==
    /\ bstep = s
    /\ bstep' = After[s]
    /\ UNCHANGED <<wired, named, at, paths, sites, open>>

GetBacklogTelemetry ==
    /\ Asks("backlog")
    /\ \/ \E over \in BOOLEAN : Answers("backlog", over, over)
       \/ Fails("backlog")
       \/ NotConfigured("backlog")

GetStaffingGap ==
    /\ Asks("staffing")
    /\ \/ \E under \in StaffingReadings : Answers("staffing", under, under)
       \/ Fails("staffing")
       \/ NotConfigured("staffing")

GetQueueStatus ==
    /\ Asks("queue")
    /\ \/ Answers("queue", 0, 0)
       \/ Fails("queue")
       \/ NotConfigured("queue")

DiagnoseStuckTasks ==
    /\ Asks("stuck")
    /\ \/ \E result \in StuckReadings :
              Answers("stuck", result, CountForPath(result, Targets[at].processPath))
       \/ Fails("stuck")
       \/ NotConfigured("stuck")

\* Mutant: what was gathered for one path is carried over to the next.
AddPathKeepingFacts ==
    /\ bstep = "add"
    /\ LET pb   == SynthesizePathBrief(at, fact, unavailable)
           code == Targets[at].site
           k    == SelectInSeq(sites, LAMBDA s : s.code = code)
       IN  /\ paths' = Append(paths, pb)
           /\ open' = open \o pb.exceptions
           /\ sites' = IF k = 0
                       THEN Append(sites, [code |-> code, named |-> named, members |-> <<at>>])
                       ELSE [sites EXCEPT ![k].members = Append(@, at)]
    /\ unavailable' = <<>>
    /\ GoOn(at)
    /\ UNCHANGED <<wired, named, fact, heard>>

\* The brief of one path joins its site and its exceptions the open ones.
AddPath ==
    /\ bstep = "add"
    /\ LET pb   == SynthesizePathBrief(at, fact, unavailable)
           code == Targets[at].site
           k    == SelectInSeq(sites, LAMBDA s : s.code = code)
       IN  /\ paths' = Append(paths, pb)
           /\ open' = open \o pb.exceptions
           /\ sites' = IF k = 0
                       THEN Append(sites, [code |-> code, named |-> named, members |-> <<at>>])
                       ELSE [sites EXCEPT ![k].members = Append(@, at)]
    /\ fact' = Nothing /\ unavailable' = <<>>
    /\ GoOn(at)
    /\ UNCHANGED <<wired, named, heard>>

SeverityRank(e) == IF e.severity = "critical" THEN 0 ELSE IF e.severity = "warning" THEN 1 ELSE 2

\* Mutant: an exception is moved before those that tie with it.
InsertBeforeTies(out, e) ==
    LET stay == {i \in DOMAIN out : SeverityRank(out[i]) < SeverityRank(e)}
    IN  InsertAt(out, Cardinality(stay) + 1, e)

\* The inner loop of rankBySeverity: e moves left past everything worse
\* ranked than itself, so it stays behind those that tie with it.
InsertByRank(out, e) ==
    LET stay == {i \in DOMAIN out : SeverityRank(out[i]) <= SeverityRank(e)}
    IN  InsertAt(out, Cardinality(stay) + 1, e)

RankBySeverity(exceptions) ==
    LET ranked[k \in 0..Len(exceptions)] ==
            IF k = 0 THEN <<>> ELSE InsertByRank(ranked[k - 1], exceptions[k])
    IN  ranked[Len(exceptions)]

Rank ==
    /\ bstep = "rank"
    /\ bstep' = "done"
    /\ open' = RankBySeverity(open)
    /\ UNCHANGED <<wired, named, at, pathVars, paths, sites, heard>>

BriefNext ==
    \/ ExecuteBrief \/ ListSites
    \/ GetBacklogTelemetry \/ GetStaffingGap \/ GetQueueStatus \/ DiagnoseStuckTasks
    \/ AddPath \/ Rank

BriefSpec == BriefInit /\ [][BriefNext]_briefVars

-----------------------------------------------------------------------------
(* What the brief promises.                                                *)

BriefTypeOK ==
    /\ bstep \in Sources \cup {"idle", "list_sites", "add", "rank", "done"}
    /\ named \in BOOLEAN /\ at \in 0..(Len(Targets) + 1)
    /\ DOMAIN fact \subseteq Sources
    /\ Len(paths) = IF at = 0 THEN 0 ELSE at - 1

\* What target n's answers say, without the code's bookkeeping.
Alarm(n, s) ==
    LET a == heard[n] IN
    /\ s \in DOMAIN a
    /\ IF s = "stuck"
       THEN IF Targets[n].processPath = "" THEN a[s].count > 0
            ELSE Targets[n].processPath \in ToSet(a[s].tasks)
       ELSE a[s]
Alarms(n) == {s \in {"backlog", "staffing", "stuck"} : Alarm(n, s)}

\* The sources of target n that are missing, each listed once.
Silent(n) ==
    {s \in Sources : Client[s] \in wired /\ s \notin DOMAIN heard[n]}
        \cup ({"wes", "wfm", "fe"} \ wired)

\* Execute, synthesizeOne, countForPath: whatever fails for whichever target,
\* every target is shown once, under its own site and in the configured
\* order, with the facts its contexts answered for it and exactly the sources
\* that did not answer.
PathsTrue ==
    bstep = "done" =>
        /\ \A n \in TargetIds :
               /\ paths[n].target = n
               /\ DOMAIN paths[n].fact = DOMAIN heard[n]
               /\ \A s \in {"backlog", "staffing", "stuck"} :
                      Fires(s, paths[n].fact) <=> Alarm(n, s)
               /\ ToSet(paths[n].unavailable) = Silent(n)
               /\ Len(paths[n].unavailable) = Cardinality(Silent(n))
        /\ \A k \in DOMAIN sites :
               /\ sites[k].members = Only([n \in TargetIds |-> n],
                                          {n \in TargetIds : Targets[n].site = sites[k].code})
               /\ \A j \in 1..(k - 1) : sites[j].members[1] < sites[k].members[1]
        /\ {sites[k].code : k \in DOMAIN sites} = {Targets[n].site : n \in TargetIds}

Graded(n, signals, severity) ==
    IF Cardinality(Alarms(n)) = signals
    THEN <<[target |-> n, severity |-> severity]>> ELSE <<>>

\* rankBySeverity, deriveExceptions: the open exceptions are those of the
\* paths where two or three contexts agree, all critical ones before all
\* warnings, and each of the two in the order of the configured paths.
ExceptionsRanked ==
    bstep = "done" =>
        LET criticals == FlattenSeq([n \in TargetIds |-> Graded(n, 3, "critical")])
            warnings  == FlattenSeq([n \in TargetIds |-> Graded(n, 2, "warning")])
        IN  [i \in DOMAIN open |-> [target |-> open[i].target, severity |-> open[i].severity]]
              = criticals \o warnings

\* The brief as a PartialReport: a part per target and source.
Reached(n, s) ==
    \/ n < at
    \/ n = at /\ bstep \in {"add", "rank", "done"}
    \/ n = at /\ s = "backlog" /\ bstep \in {"staffing", "queue", "stuck"}
    \/ n = at /\ s = "staffing" /\ bstep \in {"queue", "stuck"}
    \/ n = at /\ s = "queue" /\ bstep = "stuck"
BriefOutcome(n, s) ==
    IF ~Reached(n, s) THEN "pending"
    ELSE IF s \in DOMAIN heard[n] THEN "answered" ELSE "failed"
BriefShown(n, s) ==
    IF bstep # "done" THEN "nothing"
    ELSE IF s \in DOMAIN paths[n].fact THEN "answered" ELSE "failed"

BriefReport == INSTANCE PartialReport WITH
    Parts <- TargetIds \X Sources,
    outcome <- [p \in TargetIds \X Sources |-> BriefOutcome(p[1], p[2])],
    shown <- [p \in TargetIds \X Sources |-> BriefShown(p[1], p[2])]

\* synthesizeOne: a reading that fails costs its own fact and nothing else,
\* and the brief comes out whole: it implements PartialReport.
BriefDegrades == BriefReport!Spec
=============================================================================
