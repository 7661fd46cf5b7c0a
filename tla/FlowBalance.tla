---------------------------- MODULE FlowBalance ----------------------------
(***************************************************************************)
(* FlowBalanceAdvisory.Execute                                             *)
(* (internal/application/usecases/flow_balance_advisory.go): the readings  *)
(* are gathered one after another, each from another bounded context that  *)
(* may fail or answer anything, then correlated, overlaid with the labour  *)
(* utilization and arbitrated against the model's plan.                    *)
(*                                                                         *)
(* One request at a time: requests share no state but the Reasoner's       *)
(* breaker, which module Reasoner models; here Reason is one step with the *)
(* two results it can have.                                                *)
(***************************************************************************)
EXTENDS FlowBalancePolicy

CONSTANTS
    WesActions,    \* strings get_rebalance_recommendation may answer
    WesDepths,     \* backlog depths it may answer
    WfmReadings,   \* answers of get_staffing_gap
    FeReadings,    \* answers of diagnose_stuck_tasks
    LpReadings,    \* answers of get_task_type_utilization
    Plans,         \* plans the model may submit
    Unasked        \* history: this context was not asked yet

WesReadings == [action : WesActions, depth : WesDepths]

ASSUME ReadingAssumption ==
    /\ WesActions \subseteq STRING
    /\ WesDepths \subseteq Int
    /\ WfmReadings \subseteq [planned : Int, active : Int, understaffed : BOOLEAN]
    /\ FeReadings \subseteq [stuck : Int]
    /\ LpReadings \subseteq [pct : Int \cup {None}, task : Int, idle : Int]
    /\ Plans \subseteq [action : STRING, heads : Int, rationale : BOOLEAN]

\* No value of the program is mistaken for nil, nor for a question not asked.
ASSUME NilAssumption ==
    LET Values == WesReadings \cup WfmReadings \cup FeReadings \cup LpReadings
                      \cup Plans \cup BOOLEAN \cup WesActions \cup DecisionSources
    IN  None \notin Values /\ Unasked \notin Values \cup {None}

VARIABLES
    mode,      \* LLMMode; off means no Reasoner is wired
    pc,        \* where Execute is
    signal,    \* the signals Execute holds
    decision,  \* the decision under construction
    reply,     \* what the latest Execute returned
    answers    \* history: what the contexts answered to this Execute

vars == <<mode, pc, signal, decision, reply, answers>>

Sources == {"wes", "wfm", "fe", "lp"}
NoSignals == [s \in Sources |-> None]
NoReply == [error |-> FALSE, decision |-> None, source |-> None, agree |-> None]
Rejection == [NoReply EXCEPT !.error = TRUE]

NotAsked == [s \in Sources |-> Unasked]

-----------------------------------------------------------------------------
(* Steps of Execute.                                                       *)

Request ==
    /\ pc = "ready"
    /\ pc' = "wes"
    /\ signal' = NoSignals
    /\ decision' = None
    /\ reply' = NoReply
    /\ answers' = NotAsked
    /\ UNCHANGED mode

Heard(source, answer) == answers' = [answers EXCEPT ![source] = answer]

\* Mutant: an unrecognized action is defaulted to a missing signal.
GatherRebalanceDefaulting(answer) ==
    /\ pc = "wes"
    /\ Heard("wes", answer)
    /\ signal' = [signal EXCEPT !["wes"] =
                      IF answer = None THEN None
                      ELSE IF Recognized(answer.action) THEN answer ELSE None]
    /\ pc' = "wfm"
    /\ UNCHANGED <<mode, decision, reply>>

\* No client or a failed call is a missing signal, here and below.
GatherRebalanceSignal(answer) ==
    /\ pc = "wes"
    /\ answer # None => Recognized(answer.action)
    /\ Heard("wes", answer)
    /\ signal' = [signal EXCEPT !["wes"] = answer]
    /\ pc' = "wfm"
    /\ UNCHANGED <<mode, decision, reply>>

\* An unrecognized action fails the whole Execute.
RejectRebalanceSignal(answer) ==
    /\ pc = "wes"
    /\ ~Recognized(answer.action)
    /\ Heard("wes", answer)
    /\ reply' = Rejection
    /\ pc' = "ready"
    /\ UNCHANGED <<mode, signal, decision>>

GatherStaffingSignal(answer) ==
    /\ pc = "wfm"
    /\ Heard("wfm", answer)
    /\ signal' = [signal EXCEPT !["wfm"] = answer]
    /\ pc' = "fe"
    /\ UNCHANGED <<mode, decision, reply>>

\* The last reading Decide needs; without the anchor there is no queue depth
\* to correlate, so the overlay is skipped.
GatherStuckTasksSignal(answer) ==
    /\ pc = "fe"
    /\ Heard("fe", answer)
    /\ signal' = [signal EXCEPT !["fe"] = answer]
    /\ decision' = Decide(signal["wes"], signal["wfm"], answer)
    /\ pc' = IF signal["wes"] = None THEN "arbitrate" ELSE "lp"
    /\ UNCHANGED <<mode, reply>>

\* A path bound to no task type is not asked about, like a missing client.
GatherUtilizationSignal(answer) ==
    /\ pc = "lp"
    /\ Heard("lp", answer)
    /\ signal' = [signal EXCEPT !["lp"] = answer]
    /\ decision' = [decision EXCEPT
           !.evidence = IF answer = None THEN @ ELSE Append(@, "lp"),
           !.utilization = CorrelateUtilization(signal["wes"].depth, answer)]
    /\ pc' = "arbitrate"
    /\ UNCHANGED <<mode, reply>>

\* Off: the deterministic decision, no model asked and nothing recorded.
ReplyWithoutModel ==
    /\ pc = "arbitrate"
    /\ mode = "off"
    /\ reply' = [NoReply EXCEPT !.decision = decision, !.source = "deterministic"]
    /\ pc' = "ready"
    /\ UNCHANGED <<mode, signal, decision, answers>>

\* Mutant: the plan is compared with the reply it has just become.
ReplyAgreeingWithItself(plan) ==
    /\ pc = "arbitrate"
    /\ mode # "off"
    /\ LET arb == Arbitrate(decision, plan, mode)
       IN  reply' = [error |-> FALSE, decision |-> arb.decision, source |-> arb.source,
                     agree |-> IF arb.agree = None THEN None
                               ELSE plan.action = arb.decision.action]
    /\ pc' = "ready"
    /\ UNCHANGED <<mode, signal, decision, answers>>

\* Reason returned: plan, or None for its error.
ReplyArbitrated(plan) ==
    /\ pc = "arbitrate"
    /\ mode # "off"
    /\ LET arb == Arbitrate(decision, plan, mode)
       IN  reply' = [error |-> FALSE, decision |-> arb.decision,
                     source |-> arb.source, agree |-> arb.agree]
    /\ pc' = "ready"
    /\ UNCHANGED <<mode, signal, decision, answers>>

Init ==
    /\ mode \in Modes
    /\ pc = "ready"
    /\ signal = NoSignals
    /\ decision = None
    /\ reply = NoReply
    /\ answers = NotAsked

Next ==
    \/ Request
    \/ \E a \in WesReadings \cup {None} : GatherRebalanceSignal(a)
    \/ \E a \in WesReadings : RejectRebalanceSignal(a)
    \/ \E a \in WfmReadings \cup {None} : GatherStaffingSignal(a)
    \/ \E a \in FeReadings \cup {None} : GatherStuckTasksSignal(a)
    \/ \E a \in LpReadings \cup {None} : GatherUtilizationSignal(a)
    \/ ReplyWithoutModel
    \/ \E p \in Plans \cup {None} : ReplyArbitrated(p)

Spec == Init /\ [][Next]_vars

-----------------------------------------------------------------------------
(* Properties.                                                             *)

DecisionType ==
    [action : RecommendedActions, heads : Int, partial : BOOLEAN, missing : Seq(Sources),
     evidence : Seq(Sources),
     utilization : {None, "staffing_gap_confirmed", "claim_flow_problem", "starvation"}]

\* Type invariant: what Execute holds is what the contexts may have answered,
\* and a wes signal past the untrusted-input boundary has a known action.
TypeOK ==
    /\ mode \in Modes
    /\ pc \in {"ready", "wes", "wfm", "fe", "lp", "arbitrate"}
    /\ signal["wes"] = None \/ signal["wes"].action \in RebalanceActions
    /\ decision = None \/ decision \in DecisionType
    /\ reply.decision = None \/ reply.decision \in DecisionType
    /\ reply.error \in BOOLEAN
    /\ reply.source \in {None} \cup DecisionSources

Answered(s) == answers[s] \notin {None, Unasked}
Returned == pc = "ready" /\ reply.decision # None
Deterministic == Returned /\ reply.source # "llm"

\* The order in which Execute asks.
AskedAs == [wes |-> 1, wfm |-> 2, fe |-> 3, lp |-> 4]

\* list names the contexts in S, each once and in the order they were asked.
NamesInOrder(list, S) ==
    /\ {list[i] : i \in DOMAIN list} = S
    /\ \A i, j \in DOMAIN list : i < j => AskedAs[list[i]] < AskedAs[list[j]]

\* Every decision shows its work: the evidence names the contexts that
\* answered this request, each once and in the order they were asked, and a
\* partial decision lists exactly the ones Decide needed that did not.
TrailMatchesAnswers ==
    Returned =>
        /\ NamesInOrder(reply.decision.evidence, {s \in Sources : Answered(s)})
        /\ IF reply.decision.partial
           THEN NamesInOrder(reply.decision.missing, {s \in Sources \ {"lp"} : ~Answered(s)})
           ELSE reply.decision.missing = <<>>
        /\ reply.decision.partial => reply.decision.missing # <<>>

\* A lever the rules pull stands on answers to this very request: work is
\* released only into a path all three contexts call healthy, labour is
\* assigned only when wes sees a problem and wfm confirms the gap, with
\* enough heads to close it, and a partial decision pulls none.
LeverJustified ==
    Deterministic =>
        /\ reply.decision.action = "release_next_work" =>
               /\ Answered("wes") /\ answers["wes"].action = "NoActionNeeded"
               /\ Answered("wfm") /\ ~answers["wfm"].understaffed
               /\ Answered("fe") /\ answers["fe"].stuck <= 0
        /\ reply.decision.action = "assign_labor" =>
               /\ Answered("wes") /\ answers["wes"].action # "NoActionNeeded"
               /\ Answered("wfm") /\ answers["wfm"].understaffed
               /\ reply.decision.heads >= 1
               /\ reply.decision.heads >= answers["wfm"].planned - answers["wfm"].active
        /\ reply.decision.partial => reply.decision.action = "hold"

\* The model can never widen what the service may say: its action is one of
\* the three levers, its head count is within the bound and only goes with
\* assign_labor, it speaks in on mode alone, and everything else in the
\* decision stays what the deterministic pass found.
ModelConfined ==
    /\ Deterministic => reply.decision = decision
    /\ Returned /\ reply.source = "llm" =>
           /\ mode = "on"
           /\ reply.decision.action \in RecommendedActions
           /\ reply.decision.heads \in 0..MaxProposedHeads
           /\ reply.decision.heads > 0 => reply.decision.action = "assign_labor"
           /\ [reply.decision EXCEPT !.action = decision.action, !.heads = decision.heads]
                  = decision

\* An action outside wes-work-planning's enum is rejected, never defaulted:
\* Execute returns an error, and no later context or model was consulted.
UntrustedActionStops ==
    Answered("wes") /\ ~Recognized(answers["wes"].action) =>
        /\ pc = "ready" /\ reply = Rejection
        /\ \A s \in Sources \ {"wes"} : answers[s] = Unasked

\* Agreement, which decides whether shadow mode may become on, is recorded
\* exactly when a plan that could have been used was compared with what the
\* rules said, and says whether they chose the same lever.
AgreementHonest ==
    [][\A p \in Plans : ReplyArbitrated(p) =>
           reply'.agree = IF ValidPlan(p) THEN p.action = decision.action ELSE None]_vars

\* domain-vision.md: "If an upstream context is unreachable, the affected
\* path's brief (or exception decision) is marked `Partial` with its
\* `MissingSignals` listed, and the recommendation conservatively degrades
\* toward `hold` rather than guessing".  Stated of the case where it matters
\* most: a lever the rules pull while a context they read is unreachable.
UnreachableMeansPartial ==
    /\ Deterministic
    /\ reply.decision.action # "hold"
    /\ \E s \in {"wes", "wfm", "fe"} : ~Answered(s)
    => reply.decision.partial
=============================================================================
