----------------------------- MODULE MCInbound -----------------------------
(* Three paths of two sites, two services, up to three work units, every route. *)
EXTENDS Inbound

MCTargets == <<[site |-> "A", processPath |-> "PICK"],
               [site |-> "B", processPath |-> "PACK"],
               [site |-> "A", processPath |-> ""]>>
MCBriefClients == {{"facility", "wes", "wfm", "fe"}, {"wes", "wfm"}, {"fe"}}
MCStaffing == {TRUE}
\* The count and the list come from another context and need not agree.
MCStuck == {[count |-> 2, tasks |-> <<"PICK">>]}

MCServices == <<"order-management", "inventory-storage">>
Line(a, c) == [app |-> a, container |-> c]
MCLogStores ==
    {<<>>, <<Line("order-management", "x")>>,
     <<Line("order-management", ""), Line("", "inventory-storage")>>,
     <<Line("order-management", ""), Line("", ""), Line("", "inventory-storage")>>}

MCWorkUnitLists == {<<>>, <<"wu1">>, <<"wu1", "wu2">>, <<"wu1", "wu2", "wu3">>}
MCTaskLists == {<<>>, <<"PICK open">>, <<"PICK done", "SLAM completed">>}

UseCases == {"flow_balance", "travel_factor", "lifecycle", "reports", "runtime", "stranded"}
MCDeployments ==
    {<<{"facility", "wes", "wfm", "fe"}, "prometheus", "loki", UseCases>>,
     <<{"wes", "wfm"}, "stub", "nil", UseCases>>,
     <<{"fe"}, "nil", "loki", UseCases>>,
     <<{"wes", "wfm"}, "nil", "nil", {}>>}
Absent == [is |-> "absent", time |-> 0]
Bounds == {Absent, [is |-> "malformed", time |-> 0]} \cup {[is |-> "given", time |-> t] : t \in 0..6}
MCRequests ==
    {[route |-> r] : r \in {"/healthz", "/daily-brief", "get_daily_brief", "/flow-balance", "/lifecycle",
                            "/runtime-signals", "get_flow_balance_exception",
                            "detect_stranded_reservation"}}
    \cup {[route |-> "list_open_exceptions", severity |-> s] :
             s \in {"", "critical", "fatal"}}
    \cup {[route |-> r, codes |-> c] : r \in {"/explain-travel-factor", "explain_travel_factor"},
                                        c \in {"one", "both"}}
    \cup {[route |-> "/reports", from |-> f, to |-> t] : f \in Bounds, t \in Bounds}
MCSignalRequests == {[route |-> "/runtime-signals"]}
=============================================================================
