------------------------------ MODULE MCAgent ------------------------------
(* Three upstreams, every way an environment can be wrong, two requests.   *)
EXTENDS Agent

MCUpstreams == <<"fe", "wes", "wfm">>
MCPublished == [fe |-> {"queue", "stuck"}, wes |-> {"backlog"}, wfm |-> {"gap"}]
MCAllowList == <<<<"wes", "backlog">>, <<"wfm", "gap">>, <<"fe", "queue">>>>
Target(p, t) == [pathId |-> p, processPath |-> t]
MCTargets == <<Target("pick-zone-a", "PICK")>>
MCServices == <<<<"order-management">>>>

Good == [mode |-> "on", key |-> TRUE, timeout |-> 2, allow |-> <<>>,
         targets |-> [parses |-> TRUE, list |-> <<>>],
         services |-> <<>>, endpoints |-> {"fe", "wes", "wfm"}]
MCEnvironments ==
    {[Good EXCEPT !.mode = m, !.key = k] : m \in {"", "off", "shadow", "on", "bogus"}, k \in BOOLEAN}
    \cup {[Good EXCEPT !.allow = a, !.timeout = 0] :
            a \in {<<<<>>, <<>>>>, <<<<>>, <<"fe", "queue">>, <<"om", "cancel">>, <<"fe", "drop">>>>,
                   <<<<"fe", "queue">>, <<"wes">>>>}}
    \cup {[Good EXCEPT !.endpoints = e] : e \in {{}, {"wfm"}}}
    \cup {[Good EXCEPT !.mode = "off", !.services = <<<<>>>>, !.targets = [parses |-> p, list |-> t]] :
            p \in BOOLEAN,
            t \in {<<>>, <<Target("p", ""), Target("q", "PACK"), Target("", "SLAM"),
                          Target("r", "PICK"), Target("r", "PACK")>>}}
=============================================================================
