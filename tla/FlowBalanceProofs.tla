------------------------- MODULE FlowBalanceProofs -------------------------
(***************************************************************************)
(* Proofs about FlowBalance, for every set of readings and plans and every *)
(* threshold: a lever of the rules stands on answers to this very request, *)
(* the model is confined to what ValidatePlan lets through, agreement is   *)
(* recorded for valid plans alone, and an action outside the enum stops    *)
(* the advisory.                                                           *)
(***************************************************************************)
EXTENDS FlowBalance, TLAPS

Readings == WesReadings \cup WfmReadings \cup FeReadings \cup LpReadings \cup {None}

\* The ground of a lever: what the three contexts must have said.
Grounded(d, wes, wfm, fe) ==
    /\ d.action = "release_next_work" =>
           /\ wes # None /\ wes.action = "NoActionNeeded"
           /\ wfm # None /\ ~wfm.understaffed
           /\ fe # None /\ fe.stuck <= 0
    /\ d.action = "assign_labor" =>
           /\ wes # None /\ wes.action # "NoActionNeeded"
           /\ wfm # None /\ wfm.understaffed
           /\ d.heads >= 1 /\ d.heads >= wfm.planned - wfm.active
    /\ d.partial => d.action = "hold"

Decided == decision \in DecisionType /\ Grounded(decision, signal["wes"], signal["wfm"], signal["fe"])

AskedSoFar ==
    /\ pc = "wes" => answers = NotAsked
    /\ pc \in {"wfm", "fe", "lp", "arbitrate"} =>
           /\ answers["wes"] = signal["wes"]
           /\ signal["wes"] \in WesReadings \cup {None}
           /\ signal["wes"] # None => Recognized(signal["wes"].action)
    /\ pc \in {"fe", "lp", "arbitrate"} =>
           answers["wfm"] = signal["wfm"] /\ signal["wfm"] \in WfmReadings \cup {None}
    /\ pc \in {"lp", "arbitrate"} =>
           /\ answers["fe"] = signal["fe"] /\ signal["fe"] \in FeReadings \cup {None}
           /\ Decided

\* The inductive invariant: what Execute holds at each point is what it was
\* answered, and the three results about a reply.
IInv ==
    /\ mode \in Modes
    /\ pc \in {"ready", "wes", "wfm", "fe", "lp", "arbitrate"}
    /\ signal \in [Sources -> Readings]
    /\ answers \in [Sources -> Readings \cup {Unasked}]
    /\ AskedSoFar
    /\ LeverJustified
    /\ ModelConfined
    /\ UntrustedActionStops

-----------------------------------------------------------------------------
(* The rules.                                                              *)

\* A reading is neither nil nor unasked, and has its fields.
LEMMA ReadingFacts ==
    /\ None # Unasked /\ None \notin DecisionSources
    /\ \A r \in WesReadings : r # None /\ r # Unasked
    /\ \A r \in WfmReadings : /\ r # None /\ r # Unasked
                              /\ r.planned \in Int /\ r.active \in Int
                              /\ r.understaffed \in BOOLEAN
    /\ \A r \in FeReadings : r # None /\ r # Unasked /\ r.stuck \in Int
    /\ \A r \in LpReadings : r # None /\ r # Unasked
BY ReadingAssumption, NilAssumption

\* The heads that close a gap: at least one, at least the gap.
LEMMA ProposedHeadsCloseGap ==
    ASSUME NEW planned \in Int, NEW active \in Int
    PROVE  /\ ProposedHeads(planned, active) >= 1
           /\ ProposedHeads(planned, active) >= planned - active
BY DEF ProposedHeads

\* The evidence and the missing signals are lists of sources.
LEMMA ListsOfSources ==
    ASSUME NEW wes, NEW wfm, NEW fe
    PROVE  /\ EvidenceEntries(wes, wfm, fe) \in Seq(Sources)
           /\ MissingSignals(wes, wfm, fe) \in Seq(Sources)
<1>1. ASSUME NEW a \in BOOLEAN, NEW b \in BOOLEAN, NEW c \in BOOLEAN
      PROVE  Listed(a, b, c) \in Seq(Sources)
  <2>1. /\ <<>> \in Seq(Sources) /\ <<"wes">> \in Seq(Sources)
        /\ <<"wfm">> \in Seq(Sources) /\ <<"fe">> \in Seq(Sources)
    BY DEF Sources
  <2> QED
    BY <2>1 DEF Listed
<1> QED
  BY <1>1 DEF EvidenceEntries, MissingSignals

\* A decision record is of the type and has the fields it was built from.
LEMMA RecordFields ==
    ASSUME NEW action \in RecommendedActions, NEW heads \in Int, NEW partial \in BOOLEAN,
           NEW missing \in Seq(Sources), NEW evidence \in Seq(Sources)
    PROVE  LET d == [action |-> action, heads |-> heads, partial |-> partial,
                     missing |-> missing, evidence |-> evidence, utilization |-> None]
           IN  /\ d \in DecisionType
               /\ d.action = action /\ d.heads = heads /\ d.partial = partial
BY DEF DecisionType

\* A lever pulls what it was built with.
LEMMA LeverFields ==
    ASSUME NEW evidence \in Seq(Sources), NEW action \in RecommendedActions, NEW heads \in Int
    PROVE  /\ Lever(evidence, action, heads) \in DecisionType
           /\ Lever(evidence, action, heads).action = action
           /\ Lever(evidence, action, heads).heads = heads
           /\ Lever(evidence, action, heads).partial = FALSE
BY DEF Lever, DecisionType

\* Both ways of holding hold.
LEMMA HoldFields ==
    ASSUME NEW evidence \in Seq(Sources), NEW missing \in Seq(Sources)
    PROVE  /\ Hold(evidence) \in DecisionType /\ Hold(evidence).action = "hold"
           /\ DegradeToHold(evidence, missing) \in DecisionType
           /\ DegradeToHold(evidence, missing).action = "hold"
<1>0. "hold" \in RecommendedActions /\ 0 \in Int /\ TRUE \in BOOLEAN
  BY DEF RecommendedActions
<1>1. Hold(evidence) = Lever(evidence, "hold", 0)
  BY DEF Hold
<1>2. Lever(evidence, "hold", 0) \in DecisionType /\ Lever(evidence, "hold", 0).action = "hold"
  BY <1>0, LeverFields
<1>3. /\ DegradeToHold(evidence, missing) \in DecisionType
      /\ DegradeToHold(evidence, missing).action = "hold"
  BY <1>0, RecordFields, Zenon DEF DegradeToHold
<1> QED
  BY <1>1, <1>2, <1>3

\* Holding needs no ground.
LEMMA HoldGrounded ==
    ASSUME NEW d, d.action = "hold", NEW wes, NEW wfm, NEW fe
    PROVE  Grounded(d, wes, wfm, fe)
BY DEF Grounded

\* Whatever the contexts answer, Decide pulls a lever only on its ground.
LEMMA DecideGrounded ==
    ASSUME NEW wes \in WesReadings \cup {None}, NEW wfm \in WfmReadings \cup {None},
           NEW fe \in FeReadings \cup {None}
    PROVE  Decide(wes, wfm, fe) \in DecisionType /\ Grounded(Decide(wes, wfm, fe), wes, wfm, fe)
<1> DEFINE e == EvidenceEntries(wes, wfm, fe)
           m == MissingSignals(wes, wfm, fe)
<1>0. e \in Seq(Sources) /\ m \in Seq(Sources)
  BY ListsOfSources
<1> HIDE DEF e, m
<1>1. /\ Hold(e) \in DecisionType /\ Grounded(Hold(e), wes, wfm, fe)
      /\ DegradeToHold(e, m) \in DecisionType /\ Grounded(DegradeToHold(e, m), wes, wfm, fe)
  BY <1>0, HoldFields, HoldGrounded
<1>2. ASSUME wes # None, wes.action = "NoActionNeeded"
      PROVE  LET d == DecideHealthyBacklog(e, m, wfm, fe)
             IN  d \in DecisionType /\ Grounded(d, wes, wfm, fe)
  <2> DEFINE d == Lever(e, "release_next_work", 0)
  <2>1. /\ d \in DecisionType /\ d.action = "release_next_work" /\ d.partial = FALSE
    <3>1. "release_next_work" \in RecommendedActions /\ 0 \in Int
      BY DEF RecommendedActions
    <3> QED
      BY <1>0, <3>1, LeverFields
  <2> HIDE DEF d
  <2>2. ASSUME fe # None, ~(fe.stuck > 0), wfm # None, ~wfm.understaffed
        PROVE  Grounded(d, wes, wfm, fe)
    <3>1. fe.stuck <= 0
      BY <2>2, ReadingFacts
    <3> QED
      BY <1>2, <2>1, <2>2, <3>1 DEF Grounded
  <2>3. \/ DecideHealthyBacklog(e, m, wfm, fe) = Hold(e)
        \/ DecideHealthyBacklog(e, m, wfm, fe) = DegradeToHold(e, m)
        \/ /\ DecideHealthyBacklog(e, m, wfm, fe) = d
           /\ fe # None /\ ~(fe.stuck > 0) /\ wfm # None /\ ~wfm.understaffed
    <3>1. fe # None => fe.stuck > 0 \/ fe.stuck <= 0
      BY ReadingFacts
    <3> QED
      BY <3>1 DEF DecideHealthyBacklog, d
  <2> QED
    BY <1>1, <2>1, <2>2, <2>3
<1>3. ASSUME wes # None, wes.action # "NoActionNeeded"
      PROVE  LET d == DecideLaborGap(e, m, wfm, fe)
             IN  d \in DecisionType /\ Grounded(d, wes, wfm, fe)
  <2> DEFINE h == ProposedHeads(wfm.planned, wfm.active)
             d == Lever(e, "assign_labor", h)
  <2>1. wfm # None =>
            /\ d \in DecisionType /\ d.action = "assign_labor" /\ d.heads = h
            /\ d.partial = FALSE
    <3>1. wfm # None => h \in Int
      BY ReadingFacts DEF ProposedHeads
    <3>2. "assign_labor" \in RecommendedActions
      BY DEF RecommendedActions
    <3> HIDE DEF h
    <3> QED
      BY <1>0, <3>1, <3>2, LeverFields
  <2>2. wfm # None => h >= 1 /\ h >= wfm.planned - wfm.active
    BY ReadingFacts, ProposedHeadsCloseGap
  <2>3. \/ DecideLaborGap(e, m, wfm, fe) = Hold(e)
        \/ DecideLaborGap(e, m, wfm, fe) = DegradeToHold(e, m)
        \/ DecideLaborGap(e, m, wfm, fe) = d /\ wfm # None /\ wfm.understaffed
    <3>1. wfm # None => wfm.understaffed \/ ~wfm.understaffed
      OBVIOUS
    <3> QED
      BY <3>1 DEF DecideLaborGap
  <2> HIDE DEF d, h
  <2>4. wfm # None /\ wfm.understaffed => Grounded(d, wes, wfm, fe)
    BY <1>3, <2>1, <2>2 DEF Grounded
  <2> QED
    BY <1>1, <2>1, <2>3, <2>4
<1>4. CASE wes = None
  <2>1. Decide(wes, wfm, fe) = DegradeToHold(e, m)
    BY <1>4 DEF Decide, e, m
  <2> QED
    BY <1>1, <2>1
<1>5. CASE wes # None /\ wes.action = "NoActionNeeded"
  <2>1. Decide(wes, wfm, fe) = DecideHealthyBacklog(e, m, wfm, fe)
    BY <1>5 DEF Decide, e, m
  <2> QED
    BY <1>2, <1>5, <2>1
<1>6. CASE wes # None /\ wes.action # "NoActionNeeded"
  <2>1. Decide(wes, wfm, fe) = DecideLaborGap(e, m, wfm, fe)
    BY <1>6 DEF Decide, e, m
  <2> QED
    BY <1>3, <1>6, <2>1
<1> QED
  BY <1>4, <1>5, <1>6

\* The plan changes the lever and nothing else.
LEMMA ReplaceFields ==
    ASSUME NEW det \in DecisionType, NEW plan
    PROVE  /\ Replace(det, plan).action = plan.action
           /\ Replace(det, plan).heads = plan.heads
           /\ [Replace(det, plan) EXCEPT !.action = det.action, !.heads = det.heads] = det
<1>1. Replace(det, plan).action = plan.action /\ Replace(det, plan).heads = plan.heads
  BY DEF Replace, DecisionType
<1>2. [Replace(det, plan) EXCEPT !.action = det.action, !.heads = det.heads] = det
  BY DEF Replace, DecisionType
<1> QED
  BY <1>1, <1>2

\* Only a plan that ValidatePlan accepts, in on mode, replaces the rules'
\* decision.
LEMMA ArbitrateConfines ==
    ASSUME NEW det, NEW plan, NEW m \in Modes
    PROVE  LET arb == Arbitrate(det, plan, m)
           IN  /\ arb.source \in DecisionSources
               /\ arb.source # "llm" => arb.decision = det
               /\ arb.source = "llm" =>
                      /\ m = "on" /\ plan # None /\ ValidPlan(plan)
                      /\ arb.decision = Replace(det, plan)
BY DEF Arbitrate, Modes, DecisionSources

-----------------------------------------------------------------------------
(* The invariant is inductive.                                             *)

\* Nothing was asked and nothing was said.
LEMMA InitIInv == Init => IInv
<1> SUFFICES ASSUME Init PROVE IInv
  OBVIOUS
<1>1. /\ pc = "ready" /\ mode \in Modes /\ reply.decision = None
      /\ signal \in [Sources -> Readings]
      /\ answers \in [Sources -> Readings \cup {Unasked}] /\ answers["wes"] = Unasked
  BY DEF Init, NoSignals, NotAsked, NoReply, Readings, Sources
<1>2. AskedSoFar
  BY <1>1 DEF AskedSoFar
<1>3. LeverJustified /\ ModelConfined /\ UntrustedActionStops
  BY <1>1 DEF LeverJustified, ModelConfined, UntrustedActionStops, Deterministic,
              Returned, Answered
<1> QED
  BY <1>1, <1>2, <1>3 DEF IInv

\* While Execute is at work nothing is claimed of a reply.
LEMMA AtWorkKeeps ==
    ASSUME IInv, pc' \in {"wes", "wfm", "fe", "lp", "arbitrate"}, mode' = mode,
           signal' \in [Sources -> Readings],
           answers' \in [Sources -> Readings \cup {Unasked}], AskedSoFar'
    PROVE  IInv'
<1>1. Answered("wes")' => Recognized(answers'["wes"].action)
  <2>1. CASE pc' = "wes"
    BY <2>1 DEF AskedSoFar, NotAsked, Answered, Sources
  <2>2. CASE pc' \in {"wfm", "fe", "lp", "arbitrate"}
    BY <2>2 DEF AskedSoFar, Answered
  <2> QED
    BY <2>1, <2>2
<1>2. UntrustedActionStops'
  BY <1>1 DEF UntrustedActionStops
<1>3. LeverJustified' /\ ModelConfined'
  BY DEF LeverJustified, ModelConfined, Deterministic, Returned
<1> QED
  BY <1>2, <1>3 DEF IInv

\* A request starts from nothing.
LEMMA RequestIInv == IInv /\ Request => IInv'
<1> SUFFICES ASSUME IInv, Request PROVE IInv'
  OBVIOUS
<1>1. /\ pc' = "wes" /\ mode' = mode /\ answers' = NotAsked
      /\ signal' \in [Sources -> Readings]
      /\ answers' \in [Sources -> Readings \cup {Unasked}]
  BY DEF Request, NoSignals, NotAsked, Readings
<1>2. AskedSoFar'
  BY <1>1 DEF AskedSoFar, NotAsked
<1> QED
  BY <1>1, <1>2, AtWorkKeeps

\* What a gather step does to the two records of answers.
LEMMA HeardFacts ==
    ASSUME IInv, NEW s \in Sources, NEW a \in Readings, Heard(s, a),
           signal' = [signal EXCEPT ![s] = a]
    PROVE  /\ answers' \in [Sources -> Readings \cup {Unasked}]
           /\ signal' \in [Sources -> Readings]
           /\ answers'[s] = a /\ signal'[s] = a
           /\ \A t \in Sources \ {s} : answers'[t] = answers[t] /\ signal'[t] = signal[t]
BY DEF IInv, Heard

\* The anchor's answer, or its failure.
LEMMA GatherRebalanceIInv ==
    ASSUME IInv, NEW a \in WesReadings \cup {None}, GatherRebalanceSignal(a)
    PROVE  IInv'
<1>1. /\ pc' = "wfm" /\ mode' = mode /\ (a # None => Recognized(a.action))
      /\ Heard("wes", a) /\ signal' = [signal EXCEPT !["wes"] = a]
      /\ a \in Readings /\ "wes" \in Sources
  BY DEF GatherRebalanceSignal, Readings, Sources
<1>2. /\ answers' \in [Sources -> Readings \cup {Unasked}]
      /\ signal' \in [Sources -> Readings]
      /\ answers'["wes"] = a /\ signal'["wes"] = a
  BY <1>1, HeardFacts
<1>3. AskedSoFar'
  BY <1>1, <1>2 DEF AskedSoFar
<1> QED
  BY <1>1, <1>2, <1>3, AtWorkKeeps

\* An unknown action ends Execute with nobody else asked.
LEMMA RejectRebalanceIInv ==
    ASSUME IInv, NEW a \in WesReadings, RejectRebalanceSignal(a)
    PROVE  IInv'
<1>1. /\ pc' = "ready" /\ mode' = mode /\ signal' = signal
      /\ Heard("wes", a) /\ reply' = Rejection /\ answers = NotAsked
      /\ a \in Readings /\ "wes" \in Sources
  BY DEF RejectRebalanceSignal, Readings, Sources, IInv, AskedSoFar
<1>2. /\ answers' \in [Sources -> Readings \cup {Unasked}]
      /\ \A t \in Sources \ {"wes"} : answers'[t] = Unasked
  BY <1>1 DEF IInv, Heard, NotAsked
<1>3. reply'.decision = None
  BY <1>1 DEF Rejection, NoReply
<1>4. AskedSoFar'
  BY <1>1 DEF AskedSoFar
<1>5. LeverJustified' /\ ModelConfined'
  BY <1>3 DEF LeverJustified, ModelConfined, Deterministic, Returned
<1>6. UntrustedActionStops'
  BY <1>1, <1>2 DEF UntrustedActionStops, Rejection, NoReply
<1> QED
  BY <1>1, <1>2, <1>4, <1>5, <1>6 DEF IInv

\* The staffing gap, or its failure.
LEMMA GatherStaffingIInv ==
    ASSUME IInv, NEW a \in WfmReadings \cup {None}, GatherStaffingSignal(a)
    PROVE  IInv'
<1>1. /\ pc = "wfm" /\ pc' = "fe" /\ mode' = mode
      /\ Heard("wfm", a) /\ signal' = [signal EXCEPT !["wfm"] = a]
      /\ a \in Readings /\ "wfm" \in Sources /\ "wes" \in Sources \ {"wfm"}
  BY DEF GatherStaffingSignal, Readings, Sources
<1>2. /\ answers' \in [Sources -> Readings \cup {Unasked}]
      /\ signal' \in [Sources -> Readings]
      /\ answers'["wfm"] = a /\ signal'["wfm"] = a
      /\ answers'["wes"] = answers["wes"] /\ signal'["wes"] = signal["wes"]
  BY <1>1, HeardFacts
<1>3. AskedSoFar'
  BY <1>1, <1>2 DEF AskedSoFar, IInv
<1> QED
  BY <1>1, <1>2, <1>3, AtWorkKeeps

\* The last reading of the rules, and what they make of the three.
LEMMA GatherStuckTasksIInv ==
    ASSUME IInv, NEW a \in FeReadings \cup {None}, GatherStuckTasksSignal(a)
    PROVE  IInv'
<1>1. /\ pc = "fe" /\ pc' \in {"lp", "arbitrate"} /\ mode' = mode
      /\ Heard("fe", a) /\ signal' = [signal EXCEPT !["fe"] = a]
      /\ decision' = Decide(signal["wes"], signal["wfm"], a)
      /\ a \in Readings /\ "fe" \in Sources
      /\ "wes" \in Sources \ {"fe"} /\ "wfm" \in Sources \ {"fe"}
  BY DEF GatherStuckTasksSignal, Readings, Sources
<1>2. /\ answers' \in [Sources -> Readings \cup {Unasked}]
      /\ signal' \in [Sources -> Readings]
      /\ answers'["fe"] = a /\ signal'["fe"] = a
      /\ answers'["wes"] = answers["wes"] /\ signal'["wes"] = signal["wes"]
      /\ answers'["wfm"] = answers["wfm"] /\ signal'["wfm"] = signal["wfm"]
  BY <1>1, HeardFacts
<1>3. /\ answers["wes"] = signal["wes"] /\ signal["wes"] \in WesReadings \cup {None}
      /\ signal["wes"] # None => Recognized(signal["wes"].action)
      /\ answers["wfm"] = signal["wfm"] /\ signal["wfm"] \in WfmReadings \cup {None}
  BY <1>1 DEF IInv, AskedSoFar
<1>4. Decided'
  BY <1>1, <1>2, <1>3, DecideGrounded DEF Decided
<1>5. AskedSoFar'
  BY <1>1, <1>2, <1>3, <1>4 DEF AskedSoFar
<1> QED
  BY <1>1, <1>2, <1>5, AtWorkKeeps

\* The utilization reading, or its failure.
LEMMA GatherUtilizationIInv ==
    ASSUME IInv, NEW a \in LpReadings \cup {None}, GatherUtilizationSignal(a)
    PROVE  IInv'
<1> DEFINE e == IF a = None THEN decision.evidence ELSE Append(decision.evidence, "lp")
           u == CorrelateUtilization(signal["wes"].depth, a)
<1>1. /\ pc = "lp" /\ pc' = "arbitrate" /\ mode' = mode
      /\ Heard("lp", a) /\ signal' = [signal EXCEPT !["lp"] = a]
      /\ decision' = [decision EXCEPT !.evidence = e, !.utilization = u]
      /\ a \in Readings /\ "lp" \in Sources /\ "wes" \in Sources \ {"lp"}
      /\ "wfm" \in Sources \ {"lp"} /\ "fe" \in Sources \ {"lp"}
  BY DEF GatherUtilizationSignal, Readings, Sources
<1>2. /\ answers' \in [Sources -> Readings \cup {Unasked}]
      /\ signal' \in [Sources -> Readings]
      /\ \A t \in {"wes", "wfm", "fe"} : answers'[t] = answers[t] /\ signal'[t] = signal[t]
  BY <1>1, HeardFacts
<1>3. /\ decision \in DecisionType
      /\ Grounded(decision, signal["wes"], signal["wfm"], signal["fe"])
  BY <1>1 DEF IInv, AskedSoFar, Decided
<1>4. u \in {None, "staffing_gap_confirmed", "claim_flow_problem", "starvation"}
  BY DEF CorrelateUtilization
<1>5. e \in Seq(Sources)
  <2>1. decision.evidence \in Seq(Sources)
    BY <1>3 DEF DecisionType
  <2> QED
    BY <1>1, <2>1
<1> HIDE DEF e, u
<1>6. /\ decision' \in DecisionType /\ decision'.action = decision.action
      /\ decision'.heads = decision.heads /\ decision'.partial = decision.partial
  BY <1>1, <1>3, <1>4, <1>5 DEF DecisionType
<1>7. Grounded(decision', signal["wes"], signal["wfm"], signal["fe"])
  BY <1>3, <1>6 DEF Grounded
<1>8. Decided'
  BY <1>2, <1>6, <1>7 DEF Decided
<1>9. AskedSoFar'
  BY <1>1, <1>2, <1>8 DEF AskedSoFar, IInv
<1> QED
  BY <1>1, <1>2, <1>9, AtWorkKeeps

\* A reply from "arbitrate" keeps the invariant when it is the decision, or
\* a valid plan in on mode.
LEMMA ReplyKeeps ==
    ASSUME IInv, pc = "arbitrate", pc' = "ready",
           UNCHANGED <<mode, signal, decision, answers>>,
           reply'.source \in DecisionSources,
           reply'.source # "llm" => reply'.decision = decision,
           reply'.source = "llm" =>
               /\ mode = "on"
               /\ \E plan \in Plans :
                      ValidPlan(plan) /\ reply'.decision = Replace(decision, plan)
    PROVE  IInv'
<1>1. /\ decision \in DecisionType
      /\ Grounded(decision, answers["wes"], answers["wfm"], answers["fe"])
      /\ answers["wes"] = signal["wes"]
      /\ signal["wes"] \in WesReadings \cup {None}
      /\ signal["wes"] # None => Recognized(signal["wes"].action)
      /\ answers["wfm"] \in WfmReadings \cup {None}
      /\ answers["fe"] \in FeReadings \cup {None}
  BY DEF IInv, AskedSoFar, Decided
<1>2. AskedSoFar'
  BY DEF AskedSoFar
<1>3. UntrustedActionStops'
  BY <1>1 DEF UntrustedActionStops, Answered
<1>4. LeverJustified'
  <2>1. /\ answers["wes"] # None => Answered("wes")'
        /\ answers["wfm"] # None => Answered("wfm")'
        /\ answers["fe"] # None => Answered("fe")'
    BY <1>1, ReadingFacts DEF Answered
  <2>2. Deterministic' => reply'.decision = decision
    BY DEF Deterministic, Returned
  <2> QED
    BY <1>1, <2>1, <2>2 DEF LeverJustified, Grounded
<1>5. ModelConfined'
  <2>1. Deterministic' => reply'.decision = decision'
    BY DEF Deterministic, Returned
  <2>2. ASSUME reply'.source = "llm"
        PROVE  /\ mode = "on"
               /\ reply'.decision.action \in RecommendedActions
               /\ reply'.decision.heads \in 0..MaxProposedHeads
               /\ reply'.decision.heads > 0 => reply'.decision.action = "assign_labor"
               /\ [reply'.decision EXCEPT !.action = decision.action,
                                          !.heads = decision.heads] = decision
    <3>1. PICK plan \in Plans :
              ValidPlan(plan) /\ reply'.decision = Replace(decision, plan)
      BY <2>2
    <3>2. plan.heads \in Int
      BY ReadingAssumption
    <3>3. /\ plan.action \in RecommendedActions
          /\ plan.heads \in 0..MaxProposedHeads
          /\ plan.heads > 0 => plan.action = "assign_labor"
      BY <3>1, <3>2, PolicyAssumption DEF ValidPlan
    <3> DEFINE r == Replace(decision, plan)
    <3>4. /\ r.action = plan.action /\ r.heads = plan.heads
          /\ [r EXCEPT !.action = decision.action, !.heads = decision.heads] = decision
      BY <1>1, ReplaceFields, Zenon
    <3> HIDE DEF r
    <3>5. reply'.decision = r
      BY <3>1 DEF r
    <3> QED
      BY <2>2, <3>3, <3>4, <3>5
  <2> QED
    BY <2>1, <2>2 DEF ModelConfined
<1> QED
  BY <1>2, <1>3, <1>4, <1>5 DEF IInv

\* Without a Reasoner the decision is the reply.
LEMMA ReplyWithoutModelIInv == IInv /\ ReplyWithoutModel => IInv'
<1> SUFFICES ASSUME IInv, ReplyWithoutModel PROVE IInv'
  OBVIOUS
<1>1. reply'.source = "deterministic" /\ reply'.decision = decision
  BY DEF ReplyWithoutModel, NoReply
<1> QED
  BY <1>1, ReplyKeeps DEF ReplyWithoutModel, DecisionSources

\* With one, Arbitrate decides between the decision and the plan.
LEMMA ReplyArbitratedIInv ==
    ASSUME IInv, NEW plan \in Plans \cup {None}, ReplyArbitrated(plan)
    PROVE  IInv'
<1> DEFINE arb == Arbitrate(decision, plan, mode)
<1>1. reply'.source = arb.source /\ reply'.decision = arb.decision
  BY DEF ReplyArbitrated
<1>2. mode \in Modes
  BY DEF IInv
<1>3. /\ arb.source \in DecisionSources
      /\ arb.source # "llm" => arb.decision = decision
      /\ arb.source = "llm" =>
             /\ mode = "on" /\ plan # None /\ ValidPlan(plan)
             /\ arb.decision = Replace(decision, plan)
  BY <1>2, ArbitrateConfines
<1> HIDE DEF arb
<1> QED
  BY <1>1, <1>3, ReplyKeeps DEF ReplyArbitrated

\* The invariant holds after every step.
LEMMA NextIInv == IInv /\ [Next]_vars => IInv'
<1> SUFFICES ASSUME IInv, [Next]_vars PROVE IInv'
  OBVIOUS
<1>1. CASE Next
  BY <1>1, RequestIInv, GatherRebalanceIInv, RejectRebalanceIInv, GatherStaffingIInv,
     GatherStuckTasksIInv, GatherUtilizationIInv, ReplyWithoutModelIInv,
     ReplyArbitratedIInv
  DEF Next
<1>2. CASE UNCHANGED vars
  BY <1>2 DEF vars, IInv, AskedSoFar, Decided, LeverJustified, ModelConfined,
              UntrustedActionStops, Deterministic, Returned, Answered
<1> QED
  BY <1>1, <1>2

\* The inductive invariant holds in every reachable state.
THEOREM Invariance == Spec => []IInv
BY InitIInv, NextIInv, PTL DEF Spec

-----------------------------------------------------------------------------
(* The results.                                                            *)

\* Whatever the contexts answer or fail to answer, a lever pulled by the
\* rules stands on answers to this very request.
THEOREM LeversAreJustified == Spec => []LeverJustified
<1>1. IInv => LeverJustified
  BY DEF IInv
<1> QED
  BY <1>1, Invariance, PTL

\* Whatever the model submits, it changes the lever and the head count
\* alone, within their vocabulary and bound, and in on mode alone.
THEOREM ModelIsConfined == Spec => []ModelConfined
<1>1. IInv => ModelConfined
  BY DEF IInv
<1> QED
  BY <1>1, Invariance, PTL

\* An action outside the enum ends the advisory before anyone else is asked.
THEOREM UntrustedStops == Spec => []UntrustedActionStops
<1>1. IInv => UntrustedActionStops
  BY DEF IInv
<1> QED
  BY <1>1, Invariance, PTL

-----------------------------------------------------------------------------
(* Agreement.                                                              *)

\* Agreement is about a plan that could have been used, and about what the
\* rules said before it replaced them.
LEMMA ArbitrateAgrees ==
    ASSUME NEW det, NEW plan, plan # None, NEW m \in Modes \ {"off"}
    PROVE  Arbitrate(det, plan, m).agree = IF ValidPlan(plan) THEN plan.action = det.action ELSE None
<1>1. CASE m = "on" /\ ValidPlan(plan)
  <2>1. Arbitrate(det, plan, m) = [decision |-> Replace(det, plan), source |-> "llm",
                                   agree |-> (plan.action = det.action)]
    BY <1>1 DEF Arbitrate
  <2> QED
    BY <1>1, <2>1
<1>2. CASE m = "on" /\ ~ValidPlan(plan)
  <2>1. Arbitrate(det, plan, m) = [decision |-> det, source |-> "fallback", agree |-> None]
    BY <1>2 DEF Arbitrate
  <2> QED
    BY <1>2, <2>1
<1>3. CASE m = "shadow" /\ ValidPlan(plan)
  <2>1. Arbitrate(det, plan, m) = [decision |-> det, source |-> "deterministic",
                                   agree |-> (plan.action = det.action)]
    BY <1>3 DEF Arbitrate
  <2> QED
    BY <1>3, <2>1
<1>4. CASE m = "shadow" /\ ~ValidPlan(plan)
  <2>1. Arbitrate(det, plan, m) = [decision |-> det, source |-> "deterministic", agree |-> None]
    BY <1>4 DEF Arbitrate
  <2> QED
    BY <1>4, <2>1
<1> QED
  BY <1>1, <1>2, <1>3, <1>4 DEF Modes

\* Arbitrate: for every plan and every decision of the rules, what is recorded
\* of their agreement is true.
THEOREM AgreementIsHonest == Spec => AgreementHonest
<1>1. IInv /\ [Next]_vars =>
          [\A p \in Plans : ReplyArbitrated(p) =>
              reply'.agree = IF ValidPlan(p) THEN p.action = decision.action ELSE None]_vars
  <2> SUFFICES ASSUME IInv, NEW p \in Plans, ReplyArbitrated(p)
               PROVE  reply'.agree = IF ValidPlan(p) THEN p.action = decision.action ELSE None
    OBVIOUS
  <2>1. p # None
    BY NilAssumption
  <2>2. mode \in Modes \ {"off"}
    BY DEF IInv, ReplyArbitrated
  <2>3. reply'.agree = Arbitrate(decision, p, mode).agree
    BY DEF ReplyArbitrated
  <2> QED
    BY <2>1, <2>2, <2>3, ArbitrateAgrees
<1> QED
  BY <1>1, Invariance, PTL DEF Spec, AgreementHonest

-----------------------------------------------------------------------------
(* Types.                                                                  *)

\* What TypeOK says that the invariant does not.
Typed ==
    /\ signal["wes"] = None \/ Recognized(signal["wes"].action)
    /\ decision = None \/ decision \in DecisionType
    /\ reply.decision = None \/ reply.decision \in DecisionType
    /\ reply.error \in BOOLEAN
    /\ reply.source \in {None} \cup DecisionSources

\* A plan that is let through makes a decision of the same type.
LEMMA ReplaceTyped ==
    ASSUME NEW det \in DecisionType, NEW plan \in Plans, ValidPlan(plan)
    PROVE  Replace(det, plan) \in DecisionType
<1>1. plan.action \in RecommendedActions /\ plan.heads \in Int
  BY ReadingAssumption DEF ValidPlan
<1> QED
  BY <1>1 DEF Replace, DecisionType

\* A reply that was not one yet, and one that is an error.
LEMMA BlankReplies ==
    /\ NoReply.decision = None /\ NoReply.error = FALSE /\ NoReply.source = None
    /\ Rejection.decision = None /\ Rejection.error = TRUE /\ Rejection.source = None
BY DEF NoReply, Rejection

\* Both ways of replying.
LEMMA ReplyTyped ==
    ASSUME IInv, Typed,
           ReplyWithoutModel \/ \E plan \in Plans \cup {None} : ReplyArbitrated(plan)
    PROVE  Typed'
<1>1. /\ pc = "arbitrate" /\ UNCHANGED <<mode, signal, decision, answers>>
  BY DEF ReplyWithoutModel, ReplyArbitrated
<1>2. decision \in DecisionType /\ mode \in Modes
  BY <1>1 DEF IInv, AskedSoFar, Decided
<1>3. /\ reply'.error = FALSE /\ reply'.source \in DecisionSources
      /\ reply'.decision \in DecisionType
  <2>1. CASE ReplyWithoutModel
    <3>1. reply'.error = FALSE /\ reply'.source = "deterministic" /\ reply'.decision = decision
      BY <2>1 DEF ReplyWithoutModel, NoReply
    <3> QED
      BY <1>2, <3>1 DEF DecisionSources
  <2>2. CASE \E plan \in Plans \cup {None} : ReplyArbitrated(plan)
    <3>1. PICK plan \in Plans \cup {None} : ReplyArbitrated(plan)
      BY <2>2
    <3> DEFINE arb == Arbitrate(decision, plan, mode)
    <3>2. reply'.error = FALSE /\ reply'.source = arb.source /\ reply'.decision = arb.decision
      BY <3>1 DEF ReplyArbitrated
    <3>3. /\ arb.source \in DecisionSources
          /\ arb.source # "llm" => arb.decision = decision
          /\ arb.source = "llm" => /\ plan # None /\ ValidPlan(plan)
                                   /\ arb.decision = Replace(decision, plan)
      BY <1>2, ArbitrateConfines
    <3> HIDE DEF arb
    <3>4. arb.decision \in DecisionType
      BY <1>2, <3>3, ReplaceTyped
    <3> QED
      BY <3>2, <3>3, <3>4
  <2> QED
    BY <2>1, <2>2
<1> QED
  BY <1>1, <1>3 DEF Typed

\* The steps before the reply.
LEMMA GatherTyped ==
    ASSUME IInv, IInv', Typed, Next,
           ~ReplyWithoutModel, \A plan \in Plans \cup {None} : ~ReplyArbitrated(plan)
    PROVE  Typed'
<1>1. CASE Request
  <2>1. signal' = NoSignals /\ decision' = None /\ reply' = NoReply
    BY <1>1 DEF Request
  <2>2. signal'["wes"] = None
    BY <2>1 DEF NoSignals, Sources
  <2> QED
    BY <2>1, <2>2, BlankReplies DEF Typed
<1>2. CASE \E a \in WesReadings \cup {None} : GatherRebalanceSignal(a)
  <2>1. pc' = "wfm" /\ decision' = decision /\ reply' = reply
    BY <1>2 DEF GatherRebalanceSignal
  <2>2. signal'["wes"] = None \/ Recognized(signal'["wes"].action)
    BY <2>1 DEF IInv, AskedSoFar, Recognized
  <2> QED
    BY <2>1, <2>2 DEF Typed
<1>3. CASE \E a \in WesReadings : RejectRebalanceSignal(a)
  <2>1. signal' = signal /\ decision' = decision /\ reply' = Rejection
    BY <1>3 DEF RejectRebalanceSignal
  <2> QED
    BY <2>1, BlankReplies DEF Typed
<1>4. CASE \/ \E a \in WfmReadings \cup {None} : GatherStaffingSignal(a)
           \/ \E a \in FeReadings \cup {None} : GatherStuckTasksSignal(a)
           \/ \E a \in LpReadings \cup {None} : GatherUtilizationSignal(a)
  <2>1. pc' \in {"fe", "lp", "arbitrate"} /\ reply' = reply
    BY <1>4 DEF GatherStaffingSignal, GatherStuckTasksSignal, GatherUtilizationSignal
  <2>2. decision' = decision \/ pc' \in {"lp", "arbitrate"}
    BY <1>4 DEF GatherStaffingSignal, GatherStuckTasksSignal, GatherUtilizationSignal
  <2>3. signal'["wes"] = None \/ Recognized(signal'["wes"].action)
    BY <2>1 DEF IInv, AskedSoFar, Recognized
  <2>4. decision' = decision \/ decision' \in DecisionType
    BY <2>2 DEF IInv, AskedSoFar, Decided
  <2> QED
    BY <2>1, <2>3, <2>4 DEF Typed
<1> QED
  BY <1>1, <1>2, <1>3, <1>4 DEF Next

\* Execute: for every set of readings and plans what it holds and replies is
\* of its type, and no wes action outside the enum gets past the boundary.
THEOREM TypeCorrect == Spec => []TypeOK
<1>1. Init => Typed
  <2> SUFFICES ASSUME Init PROVE Typed
    OBVIOUS
  <2>1. signal["wes"] = None /\ decision = None /\ reply = NoReply
    BY DEF Init, NoSignals, Sources
  <2> QED
    BY <2>1, BlankReplies DEF Typed
<1>2. IInv /\ IInv' /\ Typed /\ [Next]_vars => Typed'
  <2> SUFFICES ASSUME IInv, IInv', Typed, [Next]_vars PROVE Typed'
    OBVIOUS
  <2>1. CASE UNCHANGED vars
    BY <2>1 DEF vars, Typed
  <2> QED
    BY <2>1, ReplyTyped, GatherTyped
<1>3. IInv /\ Typed => TypeOK
  BY DEF IInv, Typed, TypeOK, Recognized
<1> QED
  BY <1>1, <1>2, <1>3, Invariance, PTL DEF Spec

-----------------------------------------------------------------------------
(* The trail.                                                              *)

\* What TrailMatchesAnswers says of a decision.
Trail(d) ==
    /\ NamesInOrder(d.evidence, {s \in Sources : Answered(s)})
    /\ IF d.partial
       THEN NamesInOrder(d.missing, {s \in Sources \ {"lp"} : ~Answered(s)})
       ELSE d.missing = <<>>
    /\ d.partial => d.missing # <<>>

\* The strengthening: the trail is right as soon as there is a decision, and
\* utilization is the last thing asked about.
TrailInv ==
    /\ pc \in {"wes", "wfm", "fe", "lp"} => answers["lp"] = Unasked
    /\ pc \in {"lp", "arbitrate"} => Trail(decision)
    /\ TrailMatchesAnswers

\* A list grows by a context asked after all it names.
LEMMA AppendNames ==
    ASSUME NEW list \in Seq(Sources), NEW S, NamesInOrder(list, S), NEW s \in Sources,
           \A t \in S : AskedAs[t] < AskedAs[s]
    PROVE  NamesInOrder(Append(list, s), S \cup {s})
<1> DEFINE l == Append(list, s)
<1>1. /\ DOMAIN list = 1..Len(list) /\ DOMAIN l = 1..(Len(list) + 1) /\ Len(list) \in Nat
      /\ l[Len(list) + 1] = s /\ \A i \in DOMAIN list : l[i] = list[i]
  OBVIOUS
<1> HIDE DEF l
<1>2. {list[i] : i \in DOMAIN list} = S
  BY DEF NamesInOrder
<1>3. {l[i] : i \in DOMAIN l} = S \cup {s}
  <2>1. \A i \in DOMAIN l : l[i] \in S \cup {s}
    <3>1. \A i \in DOMAIN l : i \in DOMAIN list \/ i = Len(list) + 1
      BY <1>1
    <3> QED
      BY <1>1, <1>2, <3>1
  <2>2. \A t \in S : \E i \in DOMAIN l : l[i] = t
    <3> TAKE t \in S
    <3>1. PICK i \in DOMAIN list : list[i] = t
      BY <1>2
    <3>2. i \in DOMAIN l
      BY <1>1
    <3> QED
      BY <1>1, <3>1, <3>2
  <2>3. Len(list) + 1 \in DOMAIN l
    BY <1>1
  <2> QED
    BY <1>1, <2>1, <2>2, <2>3
<1>4. \A i, j \in DOMAIN l : i < j => AskedAs[l[i]] < AskedAs[l[j]]
  <2> SUFFICES ASSUME NEW i \in DOMAIN l, NEW j \in DOMAIN l, i < j
               PROVE  AskedAs[l[i]] < AskedAs[l[j]]
    OBVIOUS
  <2>1. i \in DOMAIN list /\ l[i] = list[i] /\ list[i] \in S
    BY <1>1, <1>2
  <2>2. CASE j \in DOMAIN list
    BY <1>1, <2>1, <2>2 DEF NamesInOrder
  <2>3. CASE j = Len(list) + 1
    BY <1>1, <2>1, <2>3
  <2> QED
    BY <1>1, <2>2, <2>3
<1> QED
  BY <1>3, <1>4 DEF NamesInOrder, l

\* Listed names the sources whose test holds.
LEMMA ListedNames ==
    ASSUME NEW a \in BOOLEAN, NEW b \in BOOLEAN, NEW c \in BOOLEAN
    PROVE  /\ Listed(a, b, c) \in Seq(Sources)
           /\ NamesInOrder(Listed(a, b, c),
                  {s \in Sources \ {"lp"} : (s = "wes" /\ a) \/ (s = "wfm" /\ b) \/ (s = "fe" /\ c)})
<1> DEFINE A == IF a THEN {"wes"} ELSE {}
           B == IF b THEN A \cup {"wfm"} ELSE A
           C == IF c THEN B \cup {"fe"} ELSE B
           la == IF a THEN <<"wes">> ELSE <<>>
           lb == IF b THEN Append(la, "wfm") ELSE la
           lc == IF c THEN Append(lb, "fe") ELSE lb
<1>0. /\ AskedAs["wes"] = 1 /\ AskedAs["wfm"] = 2 /\ AskedAs["fe"] = 3
      /\ "wes" \in Sources /\ "wfm" \in Sources /\ "fe" \in Sources
  BY DEF AskedAs, Sources
<1>1. la \in Seq(Sources) /\ NamesInOrder(la, A)
  <2>1. NamesInOrder(<<>>, {})
    BY DEF NamesInOrder
  <2>2. <<"wes">> = Append(<<>>, "wes") /\ <<>> \in Seq(Sources)
    OBVIOUS
  <2>3. NamesInOrder(<<"wes">>, {} \cup {"wes"})
    BY <1>0, <2>1, <2>2, AppendNames
  <2> QED
    BY <1>0, <2>1, <2>2, <2>3
<1>2. lb \in Seq(Sources) /\ NamesInOrder(lb, B)
  <2>1. \A t \in A : AskedAs[t] < AskedAs["wfm"]
    BY <1>0
  <2> HIDE DEF la, A
  <2> QED
    BY <1>0, <1>1, <2>1, AppendNames
<1>3. lc \in Seq(Sources) /\ NamesInOrder(lc, C)
  <2>1. \A t \in B : AskedAs[t] < AskedAs["fe"]
    BY <1>0
  <2> HIDE DEF lb, B
  <2> QED
    BY <1>0, <1>2, <2>1, AppendNames
<1>4. Listed(a, b, c) = lc
  <2>1. ASSUME NEW l \in Seq(Sources), NEW s \in Sources
        PROVE  l \o <<s>> = Append(l, s) /\ l \o <<>> = l
    OBVIOUS
  <2>2. la \o (IF b THEN <<"wfm">> ELSE <<>>) = lb
    <3> HIDE DEF la
    <3> QED
      BY <1>0, <1>1, <2>1
  <2>3. lb \o (IF c THEN <<"fe">> ELSE <<>>) = lc
    <3> HIDE DEF lb
    <3> QED
      BY <1>0, <1>2, <2>1
  <2>4. Listed(a, b, c) = (la \o (IF b THEN <<"wfm">> ELSE <<>>))
                             \o (IF c THEN <<"fe">> ELSE <<>>)
    BY DEF Listed
  <2> QED
    BY <2>2, <2>3, <2>4
<1>5. C = {s \in Sources \ {"lp"} : (s = "wes" /\ a) \/ (s = "wfm" /\ b) \/ (s = "fe" /\ c)}
  BY DEF Sources
<1> HIDE DEF lc, C
<1> QED
  BY <1>3, <1>4, <1>5

\* Decide names what it was given and, when partial, what it was not given.
LEMMA DecideTrail ==
    ASSUME NEW wes \in WesReadings \cup {None}, NEW wfm \in WfmReadings \cup {None},
           NEW fe \in FeReadings \cup {None}
    PROVE  LET d == Decide(wes, wfm, fe)
           IN  /\ d.evidence = EvidenceEntries(wes, wfm, fe)
               /\ \/ d.partial = FALSE /\ d.missing = <<>>
                  \/ /\ d.partial = TRUE /\ d.missing = MissingSignals(wes, wfm, fe)
                     /\ wes = None \/ wfm = None \/ fe = None
<1> DEFINE e == EvidenceEntries(wes, wfm, fe)
           m == MissingSignals(wes, wfm, fe)
           Right(d) == /\ d.evidence = e
                       /\ \/ d.partial = FALSE /\ d.missing = <<>>
                          \/ /\ d.partial = TRUE /\ d.missing = m
                             /\ wes = None \/ wfm = None \/ fe = None
<1>1. \A a, h : Right(Lever(e, a, h))
  BY DEF Lever
<1>2. wes = None \/ wfm = None \/ fe = None => Right(DegradeToHold(e, m))
  BY DEF DegradeToHold
<1>3. Right(Hold(e))
  BY <1>1 DEF Hold
<1>4. \/ \E a, h : Decide(wes, wfm, fe) = Lever(e, a, h)
      \/ Decide(wes, wfm, fe) = Hold(e)
      \/ /\ Decide(wes, wfm, fe) = DegradeToHold(e, m)
         /\ wes = None \/ wfm = None \/ fe = None
  <2>1. wes = None => Decide(wes, wfm, fe) = DegradeToHold(e, m)
    BY DEF Decide
  <2>2. wes # None /\ wes.action = "NoActionNeeded" =>
            Decide(wes, wfm, fe) = DecideHealthyBacklog(e, m, wfm, fe)
    BY DEF Decide
  <2>3. wes # None /\ wes.action # "NoActionNeeded" =>
            Decide(wes, wfm, fe) = DecideLaborGap(e, m, wfm, fe)
    BY DEF Decide
  <2> HIDE DEF e, m
  <2>4. fe # None => fe.stuck > 0 \/ fe.stuck <= 0
    BY ReadingFacts
  <2>5. \/ DecideHealthyBacklog(e, m, wfm, fe) = Lever(e, "release_next_work", 0)
        \/ DecideHealthyBacklog(e, m, wfm, fe) = Hold(e)
        \/ /\ DecideHealthyBacklog(e, m, wfm, fe) = DegradeToHold(e, m)
           /\ wfm = None \/ fe = None
    BY <2>4 DEF DecideHealthyBacklog
  <2>6. \/ DecideLaborGap(e, m, wfm, fe) =
              Lever(e, "assign_labor", ProposedHeads(wfm.planned, wfm.active))
        \/ DecideLaborGap(e, m, wfm, fe) = Hold(e)
        \/ /\ DecideLaborGap(e, m, wfm, fe) = DegradeToHold(e, m)
           /\ wfm = None \/ fe = None
    BY DEF DecideLaborGap
  <2> QED
    BY <2>1, <2>2, <2>3, <2>5, <2>6
<1> QED
  BY <1>1, <1>2, <1>3, <1>4

\* The three answers and their absence, as sets.
LEMMA AnsweredSets ==
    ASSUME IInv, pc = "fe", answers["lp"] = Unasked, NEW a \in FeReadings \cup {None},
           GatherStuckTasksSignal(a)
    PROVE  /\ {s \in Sources : Answered(s)'} =
                  {s \in Sources \ {"lp"} :
                      (s = "wes" /\ signal["wes"] # None) \/ (s = "wfm" /\ signal["wfm"] # None)
                          \/ (s = "fe" /\ a # None)}
           /\ {s \in Sources \ {"lp"} : ~Answered(s)'} =
                  {s \in Sources \ {"lp"} :
                      (s = "wes" /\ signal["wes"] = None) \/ (s = "wfm" /\ signal["wfm"] = None)
                          \/ (s = "fe" /\ a = None)}
<1>1. /\ answers["wes"] = signal["wes"] /\ signal["wes"] \in WesReadings \cup {None}
      /\ answers["wfm"] = signal["wfm"] /\ signal["wfm"] \in WfmReadings \cup {None}
      /\ answers \in [Sources -> Readings \cup {Unasked}]
  BY DEF IInv, AskedSoFar
<1>2. answers' = [answers EXCEPT !["fe"] = a]
  BY DEF GatherStuckTasksSignal, Heard
<1>3. /\ answers'["wes"] = signal["wes"] /\ answers'["wfm"] = signal["wfm"]
      /\ answers'["fe"] = a /\ answers'["lp"] = Unasked
  BY <1>1, <1>2 DEF Sources
<1>4. /\ Answered("wes")' <=> signal["wes"] # None
      /\ Answered("wfm")' <=> signal["wfm"] # None
      /\ Answered("fe")' <=> a # None
      /\ ~Answered("lp")'
  BY <1>1, <1>3, ReadingFacts DEF Answered
<1> QED
  BY <1>4 DEF Sources

\* The rules' decision carries the trail of the three contexts they need.
LEMMA GatherStuckTasksTrail ==
    ASSUME IInv, TrailInv, NEW a \in FeReadings \cup {None}, GatherStuckTasksSignal(a)
    PROVE  TrailInv'
<1> DEFINE w == signal["wes"]
           f == signal["wfm"]
           d == Decide(w, f, a)
<1>1. /\ pc = "fe" /\ pc' \in {"lp", "arbitrate"} /\ decision' = d
      /\ answers["lp"] = Unasked /\ answers' = [answers EXCEPT !["fe"] = a]
  BY DEF GatherStuckTasksSignal, TrailInv, Heard
<1>2. w \in WesReadings \cup {None} /\ f \in WfmReadings \cup {None}
  BY <1>1 DEF IInv, AskedSoFar
<1>3. /\ d.evidence = EvidenceEntries(w, f, a)
      /\ \/ d.partial = FALSE /\ d.missing = <<>>
         \/ /\ d.partial = TRUE /\ d.missing = MissingSignals(w, f, a)
            /\ w = None \/ f = None \/ a = None
  BY <1>2, DecideTrail
<1>4. NamesInOrder(EvidenceEntries(w, f, a), {s \in Sources : Answered(s)'})
  BY <1>1, AnsweredSets, ListedNames DEF EvidenceEntries
<1>5. NamesInOrder(MissingSignals(w, f, a), {s \in Sources \ {"lp"} : ~Answered(s)'})
  BY <1>1, AnsweredSets, ListedNames DEF MissingSignals
<1>6. w = None \/ f = None \/ a = None => MissingSignals(w, f, a) # <<>>
  <2>1. w = None \/ f = None \/ a = None => {s \in Sources \ {"lp"} : ~Answered(s)'} # {}
    <3>1. "wes" \in Sources \ {"lp"} /\ "wfm" \in Sources \ {"lp"} /\ "fe" \in Sources \ {"lp"}
      BY DEF Sources
    <3> QED
      BY <1>1, <3>1, AnsweredSets
  <2>2. \A S : NamesInOrder(<<>>, S) => S = {}
    BY DEF NamesInOrder
  <2> QED
    BY <1>5, <2>1, <2>2
<1> HIDE DEF w, f, d
<1>7. Trail(decision)'
  BY <1>1, <1>3, <1>4, <1>5, <1>6 DEF Trail
<1>8. answers'["lp"] = Unasked
  BY <1>1 DEF IInv, Sources
<1>9. TrailMatchesAnswers'
  BY <1>1 DEF TrailMatchesAnswers, Returned
<1> QED
  BY <1>7, <1>8, <1>9 DEF TrailInv

\* Utilization, when it answers, is the last evidence.
LEMMA GatherUtilizationTrail ==
    ASSUME IInv, TrailInv, NEW a \in LpReadings \cup {None}, GatherUtilizationSignal(a)
    PROVE  TrailInv'
<1> DEFINE e == IF a = None THEN decision.evidence ELSE Append(decision.evidence, "lp")
           u == CorrelateUtilization(signal["wes"].depth, a)
           S == {s \in Sources : Answered(s)}
<1>1. /\ pc = "lp" /\ pc' = "arbitrate" /\ answers' = [answers EXCEPT !["lp"] = a]
      /\ decision' = [decision EXCEPT !.evidence = e, !.utilization = u]
      /\ answers["lp"] = Unasked /\ Trail(decision)
  BY DEF GatherUtilizationSignal, Heard, TrailInv
<1>2. decision \in DecisionType /\ answers \in [Sources -> Readings \cup {Unasked}]
  BY <1>1 DEF IInv, AskedSoFar, Decided
<1>3. /\ decision'.evidence = e /\ decision'.missing = decision.missing
      /\ decision'.partial = decision.partial
  <2> HIDE DEF e, u
  <2> QED
    BY <1>1, <1>2 DEF DecisionType
<1>4. /\ \A s \in Sources \ {"lp"} : Answered(s)' <=> Answered(s)
      /\ "lp" \in Sources /\ ~Answered("lp") /\ (Answered("lp")' <=> a # None)
  <2>1. /\ answers'["lp"] = a /\ \A s \in Sources \ {"lp"} : answers'[s] = answers[s]
        /\ "lp" \in Sources
    BY <1>1, <1>2 DEF Sources
  <2> QED
    BY <1>1, <2>1, ReadingFacts DEF Answered
<1>5. {s \in Sources \ {"lp"} : ~Answered(s)'} = {s \in Sources \ {"lp"} : ~Answered(s)}
  BY <1>4
<1>6. {s \in Sources : Answered(s)'} = IF a = None THEN S ELSE S \cup {"lp"}
  BY <1>4
<1>7. NamesInOrder(e, {s \in Sources : Answered(s)'})
  <2>1. NamesInOrder(decision.evidence, S) /\ decision.evidence \in Seq(Sources)
    BY <1>1, <1>2 DEF Trail, DecisionType
  <2>2. \A t \in S : AskedAs[t] < AskedAs["lp"]
    BY <1>4 DEF AskedAs, Sources
  <2> HIDE DEF S
  <2>3. NamesInOrder(Append(decision.evidence, "lp"), S \cup {"lp"})
    BY <1>4, <2>1, <2>2, AppendNames
  <2> QED
    BY <1>6, <2>1, <2>3
<1> HIDE DEF e, u, S
<1>8. Trail(decision)'
  BY <1>1, <1>3, <1>5, <1>7 DEF Trail
<1>9. TrailMatchesAnswers'
  BY <1>1 DEF TrailMatchesAnswers, Returned
<1> QED
  BY <1>1, <1>8, <1>9 DEF TrailInv

\* A reply carries the decision's trail, whoever's lever it pulls.
LEMMA ReplyTrail ==
    ASSUME IInv, IInv', TrailInv,
           ReplyWithoutModel \/ \E plan \in Plans \cup {None} : ReplyArbitrated(plan)
    PROVE  TrailInv'
<1>1. /\ pc = "arbitrate" /\ pc' = "ready" /\ UNCHANGED <<mode, signal, decision, answers>>
      /\ Trail(decision)
  BY DEF ReplyWithoutModel, ReplyArbitrated, TrailInv
<1>2. decision \in DecisionType /\ mode \in Modes
  BY <1>1 DEF IInv, AskedSoFar, Decided
<1>3. reply'.decision = decision \/ \E plan : reply'.decision = Replace(decision, plan)
  <2>1. CASE ReplyWithoutModel
    BY <2>1 DEF ReplyWithoutModel, NoReply
  <2>2. CASE \E plan \in Plans \cup {None} : ReplyArbitrated(plan)
    <3>1. PICK plan \in Plans \cup {None} : ReplyArbitrated(plan)
      BY <2>2
    <3>2. reply'.decision = Arbitrate(decision, plan, mode).decision
      BY <3>1 DEF ReplyArbitrated
    <3>3. /\ Arbitrate(decision, plan, mode).source # "llm" =>
                 Arbitrate(decision, plan, mode).decision = decision
          /\ Arbitrate(decision, plan, mode).source = "llm" =>
                 Arbitrate(decision, plan, mode).decision = Replace(decision, plan)
      BY <1>2, ArbitrateConfines
    <3> QED
      BY <3>2, <3>3
  <2> QED
    BY <2>1, <2>2
<1>4. /\ reply'.decision.evidence = decision.evidence
      /\ reply'.decision.missing = decision.missing
      /\ reply'.decision.partial = decision.partial
  BY <1>2, <1>3 DEF Replace, DecisionType
<1>5. \A s : Answered(s)' <=> Answered(s)
  BY <1>1 DEF Answered
<1>6. TrailMatchesAnswers'
  BY <1>1, <1>4, <1>5 DEF TrailMatchesAnswers, Trail
<1> QED
  BY <1>1, <1>6 DEF TrailInv

\* The trail is kept by every step.
LEMMA NextTrail == IInv /\ IInv' /\ TrailInv /\ [Next]_vars => TrailInv'
<1> SUFFICES ASSUME IInv, IInv', TrailInv, [Next]_vars PROVE TrailInv'
  OBVIOUS
<1>1. CASE Request
  <2>1. pc' = "wes" /\ answers'["lp"] = Unasked
    BY <1>1 DEF Request, NotAsked, Sources
  <2> QED
    BY <2>1 DEF TrailInv, TrailMatchesAnswers, Returned
<1>2. CASE \E a \in WesReadings \cup {None} : GatherRebalanceSignal(a)
  <2>1. pc = "wes" /\ pc' = "wfm" /\ answers'["lp"] = answers["lp"]
    BY <1>2 DEF GatherRebalanceSignal, Heard, IInv, Sources
  <2> QED
    BY <2>1 DEF TrailInv, TrailMatchesAnswers, Returned
<1>3. CASE \E a \in WesReadings : RejectRebalanceSignal(a)
  <2>1. pc' = "ready" /\ reply'.decision = None
    BY <1>3, BlankReplies DEF RejectRebalanceSignal
  <2> QED
    BY <2>1 DEF TrailInv, TrailMatchesAnswers, Returned
<1>4. CASE \E a \in WfmReadings \cup {None} : GatherStaffingSignal(a)
  <2>1. pc = "wfm" /\ pc' = "fe" /\ answers'["lp"] = answers["lp"]
    BY <1>4 DEF GatherStaffingSignal, Heard, IInv, Sources
  <2> QED
    BY <2>1 DEF TrailInv, TrailMatchesAnswers, Returned
<1>5. CASE UNCHANGED vars
  BY <1>5 DEF vars, TrailInv, Trail, TrailMatchesAnswers, Returned, Answered
<1> QED
  BY <1>1, <1>2, <1>3, <1>4, <1>5, GatherStuckTasksTrail, GatherUtilizationTrail, ReplyTrail
  DEF Next

\* Execute: for every set of readings and plans and every pattern of
\* failures, the evidence of a reply is exactly who answered, in order, and a
\* partial reply names exactly who did not.
THEOREM TrailIsTrue == Spec => []TrailMatchesAnswers
<1>1. Init => TrailInv
  BY DEF Init, NoReply, TrailInv, TrailMatchesAnswers, Returned
<1>2. TrailInv => TrailMatchesAnswers
  BY DEF TrailInv
<1> QED
  BY <1>1, <1>2, NextTrail, Invariance, PTL DEF Spec
=============================================================================
