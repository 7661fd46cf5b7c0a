--------------------------- MODULE OrderLifecycle ---------------------------
(***************************************************************************)
(* The order lookup of the console (internal/application/usecases/         *)
(* order_lifecycle.go over internal/adapters/outbound/restclient/          *)
(* clients.go): four contexts asked in turn, the last one once per work    *)
(* unit the third one returned.                                            *)
(*                                                                         *)
(* A stage that is nil in the code is one missing from the domain of       *)
(* "stages".  Whether a client is missing, its call fails, is answered     *)
(* 404 or with a null list makes no difference but for the order itself.   *)
(***************************************************************************)
EXTENDS Integers, Lists

CONSTANTS
    WorkUnitLists,  \* the lists of work units wes-work-planning may return
    TaskLists       \* the lists of tasks fulfillment-execution may return

ASSUME LookupAssumption == WorkUnitLists \subseteq Seq(STRING) /\ TaskLists \subseteq Seq(STRING)

VARIABLES
    ostep,      \* what Execute does next
    unit,       \* the work unit whose tasks it looks up
    stages,     \* the stages that are not nil
    tasks,      \* the tasks collected so far
    verdict,    \* "none", "found" or "not_found"
    lookups     \* history: what each context answered

lifecycleVars == <<ostep, unit, stages, tasks, verdict, lookups>>

Nil == <<>>
With(f, key, value) == [x \in DOMAIN f \cup {key} |-> IF x = key THEN value ELSE f[x]]
Units == IF "planning" \in DOMAIN stages THEN stages["planning"] ELSE <<>>

LifecycleInit ==
    /\ ostep = "idle" /\ unit = 0
    /\ stages = Nil /\ tasks = <<>> /\ verdict = "none"
    /\ lookups = [order |-> "unasked", planning |-> <<>>, tasks |-> Nil, failed |-> {}]

ExecuteLifecycle ==
    /\ ostep = "idle"
    /\ ostep' = "order"
    /\ UNCHANGED <<unit, stages, tasks, verdict, lookups>>

-----------------------------------------------------------------------------
(* gatherOrder.                                                            *)

\* Only order-management's own 404 ends the lookup: there is no such order.
OrderNotFound ==
    /\ ostep = "order"
    /\ ostep' = "done" /\ verdict' = "not_found"
    /\ lookups' = [lookups EXCEPT !.order = "not_found"]
    /\ UNCHANGED <<unit, stages, tasks>>

OrderUnavailable ==
    /\ ostep = "order"
    /\ ostep' = "inventory"
    /\ lookups' = [lookups EXCEPT !.order = "failed"]
    /\ UNCHANGED <<unit, stages, tasks, verdict>>

GetOrder ==
    /\ ostep = "order"
    /\ ostep' = "inventory"
    /\ stages' = With(stages, "order", "ok")
    /\ lookups' = [lookups EXCEPT !.order = "ok"]
    /\ UNCHANGED <<unit, tasks, verdict>>

-----------------------------------------------------------------------------
(* gatherReservations, gatherWorkUnits and gatherTasks.                    *)

GetReservations ==
    /\ ostep = "inventory"
    /\ ostep' = "planning"
    /\ stages' \in {stages, With(stages, "inventory", "ok")}
    /\ UNCHANGED <<unit, tasks, verdict, lookups>>

NextUnit(units, k) ==
    /\ unit' = k + 1
    /\ ostep' = IF k < Len(units) THEN "tasks" ELSE "return"

GetWorkUnits ==
    /\ ostep = "planning"
    /\ \E units \in WorkUnitLists :
           /\ stages' = With(stages, "planning", units)
           /\ lookups' = [lookups EXCEPT !.planning = units]
           /\ NextUnit(units, 0)
    /\ UNCHANGED <<tasks, verdict>>

WorkUnitsUnavailable ==
    /\ ostep = "planning"
    /\ NextUnit(<<>>, 0)
    /\ UNCHANGED <<stages, tasks, verdict, lookups>>

GetTasks ==
    /\ ostep = "tasks"
    /\ \E found \in TaskLists :
           /\ tasks' = tasks \o found
           /\ lookups' = [lookups EXCEPT !.tasks = With(@, unit, found)]
    /\ NextUnit(Units, unit)
    /\ UNCHANGED <<stages, verdict>>

\* Mutant: the first work unit whose lookup fails ends the walk.
TasksUnavailableBreaks ==
    /\ ostep = "tasks"
    /\ ostep' = "return"
    /\ lookups' = [lookups EXCEPT !.failed = @ \cup {unit}]
    /\ UNCHANGED <<unit, stages, tasks, verdict>>

\* A failed lookup skips its own work unit and no other.
TasksUnavailable ==
    /\ ostep = "tasks"
    /\ NextUnit(Units, unit)
    /\ lookups' = [lookups EXCEPT !.failed = @ \cup {unit}]
    /\ UNCHANGED <<stages, tasks, verdict>>

\* Appending nothing to a nil slice leaves it nil.
ReturnLifecycle ==
    /\ ostep = "return"
    /\ ostep' = "done" /\ verdict' = "found"
    /\ stages' = IF tasks = <<>> THEN stages ELSE With(stages, "fulfillment", tasks)
    /\ UNCHANGED <<unit, tasks, lookups>>

LifecycleNext ==
    \/ ExecuteLifecycle \/ OrderNotFound \/ OrderUnavailable \/ GetOrder
    \/ GetReservations \/ GetWorkUnits \/ WorkUnitsUnavailable
    \/ GetTasks \/ TasksUnavailable \/ ReturnLifecycle

LifecycleSpec == LifecycleInit /\ [][LifecycleNext]_lifecycleVars

-----------------------------------------------------------------------------
(* What the lookup promises.                                               *)

\* The tasks fulfillment-execution answered for the k-th work unit.
TasksOf(k) == IF k \in DOMAIN lookups.tasks THEN lookups.tasks[k] ELSE <<>>

\* Execute: an order is reported missing only on order-management's word; in
\* every other case the reply has the order if and only if it was answered
\* and the work units that were answered, every work unit was looked up once,
\* and the tasks are those of each one whose own lookup answered, in the order
\* of the work units, whichever others failed.
LifecycleTrue ==
    ostep = "done" =>
        /\ verdict = "not_found" <=> lookups.order = "not_found"
        /\ verdict = "found" =>
               /\ "order" \in DOMAIN stages <=> lookups.order = "ok"
               /\ Units = lookups.planning
               /\ DOMAIN lookups.planning \ DOMAIN lookups.tasks = lookups.failed
               /\ (IF "fulfillment" \in DOMAIN stages THEN stages["fulfillment"] ELSE <<>>)
                    = FlattenSeq([k \in DOMAIN lookups.planning |-> TasksOf(k)])
=============================================================================
