--------------------------- MODULE ConsoleReports ---------------------------
(***************************************************************************)
(* One dashboard of ConsoleReports (internal/application/usecases/         *)
(* console_reports.go): runSections starts one goroutine per section, each *)
(* asks its own context for a report and then for its freshness, writes    *)
(* its own element of a shared slice, and the dashboard waits for all.     *)
(*                                                                         *)
(* Time is counted in ticks of the REST clients' timeout (newHTTPClient).  *)
(* What the process itself does takes no time against the seconds a        *)
(* context may take: a tick passes only when every goroutine is waiting.   *)
(***************************************************************************)
EXTENDS Integers, FiniteSets

CONSTANTS
    N,            \* number of sections
    Wired,        \* those whose client is configured
    HTTPTimeout   \* ticks one call to a context may take

ASSUME DashboardAssumption ==
    /\ N \in Nat /\ Wired \subseteq 1..N
    /\ HTTPTimeout \in Nat \ {0}

VARIABLES
    loop,      \* the sections runSections has started
    wg,        \* its WaitGroup
    returned,  \* runSections returned
    stage,     \* where each goroutine is
    left,      \* ticks left to the call it waits for
    local,     \* the ReportSection it builds
    sections,  \* the slice of the dashboard
    ctx,       \* the request's context: "live" or "cancelled"
    clock,     \* ticks since the request
    answered   \* history: what each context answered to its two calls

goroutines == <<stage, left, local>>
vars == <<loop, wg, returned, goroutines, sections, ctx, clock, answered>>

Sections == 1..N
ReportSection(i, available, reason, lag) ==
    [id |-> i, available |-> available, reason |-> reason, lag |-> lag]
Blank(i) == ReportSection(i, FALSE, "none", FALSE)
Stages == {"unborn", "born", "fetch", "freshness", "built", "done"}
Calls == {"fetch", "freshness"}

Init ==
    /\ loop = 0 /\ wg = 0 /\ returned = FALSE
    /\ stage = [i \in Sections |-> "unborn"]
    /\ left = [i \in Sections |-> 0]
    /\ local = [i \in Sections |-> Blank(i)]
    /\ sections = [i \in Sections |-> Blank(0)]
    /\ ctx = "live" /\ clock = 0
    /\ answered = [i \in Sections |-> [fetch |-> "none", freshness |-> "none"]]

-----------------------------------------------------------------------------
(* runSections.                                                            *)

\* wg.Add(1) and the go statement, for the next section.
Spawn ==
    /\ loop < N
    /\ loop' = loop + 1
    /\ wg' = wg + 1
    /\ stage' = [stage EXCEPT ![loop + 1] = "born"]
    /\ UNCHANGED <<returned, left, local, sections, ctx, clock, answered>>

\* Mutant: the dashboard is handed out once its goroutines are started.
ReturnUnwaited ==
    /\ loop = N
    /\ ~returned
    /\ returned' = TRUE
    /\ UNCHANGED <<loop, wg, goroutines, sections, ctx, clock, answered>>

\* wg.Wait returns.
Return ==
    /\ loop = N /\ wg = 0
    /\ ~returned
    /\ returned' = TRUE
    /\ UNCHANGED <<loop, wg, goroutines, sections, ctx, clock, answered>>

-----------------------------------------------------------------------------
(* runSection, in the goroutine of section i.                              *)

Enters(i, s) == stage' = [stage EXCEPT ![i] = s]

\* Mutant: an unwired section ends its goroutine before wg.Done is deferred.
BeginForgetful(i) ==
    /\ stage[i] = "born"
    /\ IF i \in Wired
       THEN /\ Enters(i, "fetch")
            /\ left' = [left EXCEPT ![i] = HTTPTimeout]
            /\ UNCHANGED local
       ELSE /\ Enters(i, "done")
            /\ local' = [local EXCEPT ![i] = ReportSection(i, FALSE, "unwired", FALSE)]
            /\ UNCHANGED left
    /\ UNCHANGED <<loop, wg, returned, sections, ctx, clock, answered>>

\* An unwired client degrades its own section; a wired one is called.
Begin(i) ==
    /\ stage[i] = "born"
    /\ IF i \in Wired
       THEN /\ Enters(i, "fetch")
            /\ left' = [left EXCEPT ![i] = HTTPTimeout]
            /\ UNCHANGED local
       ELSE /\ Enters(i, "built")
            /\ local' = [local EXCEPT ![i] = ReportSection(i, FALSE, "unwired", FALSE)]
            /\ UNCHANGED left
    /\ UNCHANGED <<loop, wg, returned, sections, ctx, clock, answered>>

\* Mutant: the clients have no timeout.
CanForever(i) == ctx = "live"

\* A call may succeed while its context is alive and its time is not up.
Can(i) == ctx = "live" /\ left[i] > 0

\* Mutant: a failed call is repeated at once while it has time left.
FetchFailsRepeated(i) ==
    /\ stage[i] = "fetch"
    /\ IF left[i] > 0
       THEN UNCHANGED <<stage, local, answered>>
       ELSE /\ Enters(i, "built")
            /\ local' = [local EXCEPT ![i] = ReportSection(i, FALSE, "unavailable", FALSE)]
            /\ answered' = [answered EXCEPT ![i].fetch = "failed"]
    /\ UNCHANGED <<loop, wg, returned, left, sections, ctx, clock>>

FetchFails(i) ==
    /\ stage[i] = "fetch"
    /\ Enters(i, "built")
    /\ local' = [local EXCEPT ![i] = ReportSection(i, FALSE, "unavailable", FALSE)]
    /\ answered' = [answered EXCEPT ![i].fetch = "failed"]
    /\ UNCHANGED <<loop, wg, returned, left, sections, ctx, clock>>

Fetched(i) ==
    /\ stage[i] = "fetch" /\ Can(i)
    /\ Enters(i, "freshness")
    /\ local' = [local EXCEPT ![i] = ReportSection(i, TRUE, "none", FALSE)]
    /\ left' = [left EXCEPT ![i] = HTTPTimeout]
    /\ answered' = [answered EXCEPT ![i].fetch = "ok"]
    /\ UNCHANGED <<loop, wg, returned, sections, ctx, clock>>

\* Deliberately no degradation: the report is good, only its age is unknown.
FreshnessFails(i) ==
    /\ stage[i] = "freshness"
    /\ Enters(i, "built")
    /\ answered' = [answered EXCEPT ![i].freshness = "failed"]
    /\ UNCHANGED <<loop, wg, returned, left, local, sections, ctx, clock>>

Fresh(i) ==
    /\ stage[i] = "freshness" /\ Can(i)
    /\ Enters(i, "built")
    /\ local' = [local EXCEPT ![i] = ReportSection(i, TRUE, "none", TRUE)]
    /\ answered' = [answered EXCEPT ![i].freshness = "ok"]
    /\ UNCHANGED <<loop, wg, returned, left, sections, ctx, clock>>

\* Mutant: the sections come in the order their contexts answered.
DoneInAnswerOrder(i) ==
    /\ stage[i] = "built"
    /\ Enters(i, "done")
    /\ LET k == CHOOSE k \in Sections :
                    sections[k] = Blank(0) /\ \A j \in 1..(k - 1) : sections[j] # Blank(0)
       IN sections' = [sections EXCEPT ![k] = local[i]]
    /\ wg' = wg - 1
    /\ UNCHANGED <<loop, returned, left, local, ctx, clock, answered>>

\* sections[i] = ..., and the deferred wg.Done.
Done(i) ==
    /\ stage[i] = "built"
    /\ Enters(i, "done")
    /\ sections' = [sections EXCEPT ![i] = local[i]]
    /\ wg' = wg - 1
    /\ UNCHANGED <<loop, returned, left, local, ctx, clock, answered>>

-----------------------------------------------------------------------------
(* The surroundings.                                                       *)

\* The client of the dashboard disconnects: net/http cancels its context.
Disconnect ==
    /\ ctx = "live" /\ ~returned
    /\ ctx' = "cancelled"
    /\ UNCHANGED <<loop, wg, returned, goroutines, sections, clock, answered>>

Waiting(i) == stage[i] \in Calls /\ Can(i)

\* Everyone waits for a context, which takes its time.
Tick ==
    /\ loop = N /\ ~returned
    /\ \A i \in Sections : Waiting(i) \/ stage[i] = "done"
    /\ \E i \in Sections : Waiting(i)
    /\ left' = [i \in Sections |-> IF Waiting(i) THEN left[i] - 1 ELSE left[i]]
    /\ clock' = clock + 1
    /\ UNCHANGED <<loop, wg, returned, stage, local, sections, ctx, answered>>

\* Nothing is left to do.
Finished == returned /\ UNCHANGED vars

Section(i) ==
    \/ Begin(i) \/ FetchFails(i) \/ Fetched(i)
    \/ FreshnessFails(i) \/ Fresh(i) \/ Done(i)

Next ==
    \/ Spawn \/ Return \/ Disconnect \/ Tick \/ Finished
    \/ \E i \in Sections : Section(i)

Spec == Init /\ [][Next]_vars

\* The scheduler runs every goroutine, time passes, and net/http ends a call
\* whose time is up or whose context is cancelled.  No context has to answer.
ExpiredCall(i) == ~Can(i) /\ (FetchFails(i) \/ FreshnessFails(i))

LiveSpec ==
    /\ Spec
    /\ WF_vars(Spawn) /\ WF_vars(Return) /\ WF_vars(Tick)
    /\ \A i \in Sections : WF_vars(Begin(i)) /\ WF_vars(Done(i)) /\ WF_vars(ExpiredCall(i))

-----------------------------------------------------------------------------
(* What a dashboard promises.                                              *)

\* The WaitGroup counts the goroutines that have started and not ended.
TypeOK ==
    /\ loop \in 0..N /\ returned \in BOOLEAN
    /\ stage \in [Sections -> Stages]
    /\ wg = Cardinality({i \in Sections : stage[i] \notin {"unborn", "done"}})
    /\ left \in [Sections -> 0..HTTPTimeout]
    /\ ctx \in {"live", "cancelled"} /\ clock \in Nat
    /\ \A i \in Sections : local[i].id = i /\ sections[i].id \in {0, i}

\* The panel context i's answers call for.
Panel(i) ==
    IF i \notin Wired THEN ReportSection(i, FALSE, "unwired", FALSE)
    ELSE IF answered[i].fetch = "ok"
    THEN ReportSection(i, TRUE, "none", answered[i].freshness = "ok")
    ELSE ReportSection(i, FALSE, "unavailable", FALSE)

\* runSections, runSection: in whichever order the contexts answer, fail or
\* run out of time, a returned dashboard shows every section in declaration
\* order, each exactly as its own context answered, and no goroutine can write
\* to it any more.
PanelsTrue ==
    returned => \A i \in Sections : sections[i] = Panel(i) /\ stage[i] = "done"

\* runSections: the dashboard takes at most the two calls of its slowest
\* section, however many sections are slow.
LatencyBounded == clock <= 2 * HTTPTimeout

\* runSections: one context that never answers holds nothing back for ever.
DashboardReturns == <>returned

\* The dashboard as a PartialReport: a part per section, settled when its
\* context has answered or failed, or at once when it has no client.
PartOutcome(i) ==
    IF i \notin Wired
    THEN IF stage[i] \in {"unborn", "born"} THEN "pending" ELSE "failed"
    ELSE IF answered[i].fetch = "none" THEN "pending"
    ELSE IF answered[i].fetch = "ok" THEN "answered" ELSE "failed"
PartShown(i) ==
    IF ~returned THEN "nothing"
    ELSE IF sections[i].available THEN "answered" ELSE "failed"

Report == INSTANCE PartialReport WITH
    Parts <- Sections,
    outcome <- [i \in Sections |-> PartOutcome(i)],
    shown <- [i \in Sections |-> PartShown(i)]

\* runSections: every dashboard degrades section by section and is handed
\* out whole, never before its last section, whatever the contexts do: it
\* implements PartialReport.
DashboardDegrades == Report!Spec
=============================================================================
