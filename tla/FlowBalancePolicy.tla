------------------------- MODULE FlowBalancePolicy -------------------------
(***************************************************************************)
(* The pure rules behind the flow-balance advisory (internal/domain/       *)
(* policy): Decide, the labour-utilization overlay and Arbitrate.          *)
(*                                                                         *)
(* A signal is the reading of one upstream context, or None when its call  *)
(* failed or its client is not wired.  Rationales and the text of evidence *)
(* entries are left out; an evidence entry is the source it names.         *)
(***************************************************************************)
EXTENDS Integers, Sequences

CONSTANTS
    MaxProposedHeads,      \* bound on the head count a plan may propose
    QueueDepthHigh,        \* UtilizationQueueDepthHighThreshold
    UtilizationLowPct,     \* UtilizationLowPctThreshold
    HighIdleSharePct,      \* UtilizationHighIdleShareThreshold, in per cent
    None                   \* Go's nil

ASSUME PolicyAssumption ==
    /\ MaxProposedHeads \in Nat \ {0}
    /\ QueueDepthHigh \in Nat /\ UtilizationLowPct \in Nat /\ HighIdleSharePct \in Nat

RebalanceActions == {"NoActionNeeded", "ThrottleUpstream", "ReassignLabor"}
RecommendedActions == {"assign_labor", "release_next_work", "hold"}
Modes == {"off", "shadow", "on"}
DecisionSources == {"deterministic", "llm", "fallback"}

\* Mutant: any action is taken as it comes.
AnyAction(action) == TRUE

\* ParseRebalanceAction: the closed set, and nothing else.
Recognized(action) == action \in RebalanceActions

-----------------------------------------------------------------------------
(* Decide.                                                                 *)

\* The sources whose signal satisfies a test, in wes, wfm, fe order.
Listed(wes, wfm, fe) ==
    (IF wes THEN <<"wes">> ELSE <<>>) \o (IF wfm THEN <<"wfm">> ELSE <<>>)
        \o (IF fe THEN <<"fe">> ELSE <<>>)

\* Mutant: the last source is forgotten.
MissingSignalsWithoutFe(wes, wfm, fe) == Listed(wes = None, wfm = None, FALSE)

MissingSignals(wes, wfm, fe) == Listed(wes = None, wfm = None, fe = None)
EvidenceEntries(wes, wfm, fe) == Listed(wes # None, wfm # None, fe # None)

ProposedHeads(planned, active) == IF planned - active < 1 THEN 1 ELSE planned - active

Lever(evidence, action, heads) ==
    [action |-> action, heads |-> heads, partial |-> FALSE, missing |-> <<>>,
     evidence |-> evidence, utilization |-> None]

Hold(evidence) == Lever(evidence, "hold", 0)

DegradeToHold(evidence, missing) ==
    [action |-> "hold", heads |-> 0, partial |-> TRUE, missing |-> missing,
     evidence |-> evidence, utilization |-> None]

\* wes sees a flow problem: is it a labour gap?
DecideLaborGap(evidence, missing, wfm, fe) ==
    CASE wfm = None -> DegradeToHold(evidence, missing)
      [] wfm # None /\ wfm.understaffed ->
             Lever(evidence, "assign_labor", ProposedHeads(wfm.planned, wfm.active))
      [] wfm # None /\ ~wfm.understaffed /\ fe = None -> DegradeToHold(evidence, missing)
      [] OTHER -> Hold(evidence)

\* Mutant: a path of unknown staffing counts as staffed.
DecideHealthyUnlessUnderstaffed(evidence, missing, wfm, fe) ==
    CASE fe = None -> DegradeToHold(evidence, missing)
      [] fe # None /\ fe.stuck > 0 -> Hold(evidence)
      [] fe # None /\ fe.stuck <= 0 /\ wfm = None -> Lever(evidence, "release_next_work", 0)
      [] OTHER -> IF wfm.understaffed THEN Hold(evidence)
                  ELSE Lever(evidence, "release_next_work", 0)

\* wes is content: may the path take the next work unit?
DecideHealthyBacklog(evidence, missing, wfm, fe) ==
    CASE fe = None -> DegradeToHold(evidence, missing)
      [] fe # None /\ fe.stuck > 0 -> Hold(evidence)
      [] fe # None /\ fe.stuck <= 0 /\ wfm = None -> DegradeToHold(evidence, missing)
      [] OTHER -> IF wfm.understaffed THEN Hold(evidence)
                  ELSE Lever(evidence, "release_next_work", 0)

Decide(wes, wfm, fe) ==
    LET evidence == EvidenceEntries(wes, wfm, fe)
        missing == MissingSignals(wes, wfm, fe)
    IN  CASE wes = None -> DegradeToHold(evidence, missing)
          [] wes # None /\ wes.action = "NoActionNeeded" ->
                 DecideHealthyBacklog(evidence, missing, wfm, fe)
          [] OTHER -> DecideLaborGap(evidence, missing, wfm, fe)

-----------------------------------------------------------------------------
(* The labour-utilization overlay.                                         *)

\* idleSeconds / (taskSeconds + idleSeconds) above the threshold, in whole
\* numbers; nothing measured is no idle share.
HighIdleShare(util) ==
    LET total == util.task + util.idle
    IN  total > 0 /\ 100 * util.idle > HighIdleSharePct * total

CorrelateUtilization(queueDepth, util) ==
    LET queueHigh == queueDepth > QueueDepthHigh
        observed == util # None /\ util.pct # None
        low == util.pct < UtilizationLowPct
    IN  CASE ~observed -> None
          [] observed /\ ~low -> IF queueHigh THEN "staffing_gap_confirmed" ELSE None
          [] observed /\ low /\ ~HighIdleShare(util) -> None
          [] OTHER -> IF queueHigh THEN "claim_flow_problem" ELSE "starvation"

-----------------------------------------------------------------------------
(* Arbitrate.                                                              *)

\* Mutant: the upper bound on heads is left to the tool's input schema.
ValidPlanUnbounded(plan) ==
    /\ plan.action \in RecommendedActions
    /\ plan.heads >= 0
    /\ plan.action # "assign_labor" => plan.heads = 0
    /\ plan.rationale

ValidPlan(plan) ==
    /\ plan.action \in RecommendedActions
    /\ plan.heads >= 0 /\ plan.heads <= MaxProposedHeads
    /\ plan.action # "assign_labor" => plan.heads = 0
    /\ plan.rationale

\* The plan replaces action, heads and rationale; what the deterministic pass
\* saw stays.
Replace(det, plan) == [det EXCEPT !.action = plan.action, !.heads = plan.heads]

\* plan is None when the Reasoner returned an error.
Arbitrate(det, plan, mode) ==
    LET valid == plan # None /\ ValidPlan(plan)
        agree == IF valid THEN plan.action = det.action ELSE None
    IN  CASE mode = "on" /\ valid ->
                 [decision |-> Replace(det, plan), source |-> "llm", agree |-> agree]
          [] mode = "on" /\ ~valid ->
                 [decision |-> det, source |-> "fallback", agree |-> None]
          [] mode = "shadow" ->
                 [decision |-> det, source |-> "deterministic", agree |-> agree]
          [] OTHER -> [decision |-> det, source |-> "deterministic", agree |-> None]
=============================================================================
