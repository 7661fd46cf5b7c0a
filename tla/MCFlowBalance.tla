--------------------------- MODULE MCFlowBalance ---------------------------
(***************************************************************************)
(* FlowBalance for TLC: readings on both sides of every threshold and      *)
(* plans on both sides of every validation rule.                           *)
(***************************************************************************)
EXTENDS FlowBalance

MCWesActions == RebalanceActions \cup {"Drain"}
MCWesDepths == {QueueDepthHigh, QueueDepthHigh + 1}

\* Gaps of -1, 0 and one head over the plan bound, with either flag.
MCWfmReadings ==
    [planned : {1, 2, MaxProposedHeads + 3}, active : {2}, understaffed : BOOLEAN]

\* A count is an int: the code never asks whether it is negative.
MCFeReadings == [stuck : -1..1]

\* Nothing observed, and per cent and idle share either side of the limits.
MCLpReadings ==
    {[pct |-> None, task |-> 0, idle |-> 0], [pct |-> 0, task |-> 0, idle |-> 0]}
    \cup [pct : {UtilizationLowPct - 1, UtilizationLowPct},
          task : {100 - HighIdleSharePct}, idle : {HighIdleSharePct, HighIdleSharePct + 1}]

MCPlans ==
    [action : RecommendedActions \cup {"close_path"},
     heads : {-1, 0, 1, MaxProposedHeads, MaxProposedHeads + 1}, rationale : BOOLEAN]
=============================================================================
