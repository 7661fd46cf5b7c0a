--------------------------- MODULE InboundProofs ---------------------------
(***************************************************************************)
(* What is proved of the daily brief, the runtime signals, the order       *)
(* lookup and the adapters in front of them.  Each use case is proved      *)
(* about alone, and the adapters are shown to take its steps only, so that *)
(* it holds of what is served, behind any route and for any request.       *)
(***************************************************************************)
EXTENDS Inbound, ListLemmas

-----------------------------------------------------------------------------
(* The daily brief implements PartialReport for any list of path targets   *)
(* and any choice of clients.  The refinement needs to know that the facts *)
(* held for the current target, and those shown for the targets before it, *)
(* are the ones its own contexts answered: nothing is carried from one     *)
(* target to the next.                                                     *)

AtTarget == Sources \cup {"add"}

\* Where Execute is.
Control ==
    /\ bstep \in AtTarget \cup {"idle", "list_sites", "rank", "done"}
    /\ at \in Nat
    /\ bstep \in {"idle", "list_sites"} => at = 0
    /\ bstep \in AtTarget => at \in TargetIds
    /\ bstep \in {"rank", "done"} => at = Len(Targets) + 1

\* What was answered is what is held and shown.
Kept ==
    /\ heard = [n \in TargetIds |-> heard[n]]
    /\ at = 0 => paths = <<>> /\ DOMAIN fact = {}
    /\ at > 0 => Len(paths) = at - 1
    /\ \E S : paths \in Seq(S)
    /\ at \in TargetIds => DOMAIN fact = DOMAIN heard[at]
    /\ \A n \in TargetIds : n >= at /\ bstep \notin AtTarget => DOMAIN heard[n] = {}
    /\ \A n \in TargetIds : n > at => DOMAIN heard[n] = {}
    /\ \A n \in TargetIds : n < at => DOMAIN paths[n].fact = DOMAIN heard[n]

IInv == Control /\ Kept

\* The targets are numbered from one.
LEMMA TargetNumbers == Len(Targets) \in Nat /\ TargetIds = 1..Len(Targets)
  BY TargetsAssumption DEF TargetIds

\* GoOn: the loop moves to the next target or ends.
LEMMA GoOnMoves ==
    ASSUME NEW k \in 0..Len(Targets), GoOn(k)
    PROVE  /\ at' = k + 1
           /\ bstep' \in {"backlog", "rank"}
           /\ bstep' = "backlog" => k + 1 \in TargetIds
           /\ bstep' = "rank" => k = Len(Targets)
           /\ k + 1 \in TargetIds => bstep' = "backlog"
  BY TargetNumbers DEF GoOn

\* A reading, whether it is answered, fails or has no client: at most its own
\* source is added to what is known of the current target.
LEMMA AsksOf ==
    ASSUME IInv, NEW s \in Sources, Asks(s),
           \/ \E r, v : Answers(s, r, v)
           \/ Fails(s) \/ NotConfigured(s)
    PROVE  /\ at \in TargetIds /\ at' = at /\ bstep = s /\ bstep' = After[s]
           /\ bstep' \in AtTarget /\ paths' = paths
           /\ heard' = [n \in TargetIds |-> heard'[n]]
           /\ \A n \in TargetIds : n # at => heard'[n] = heard[n]
           /\ \A x : x # s => (x \in DOMAIN heard'[at] <=> x \in DOMAIN heard[at])
           /\ DOMAIN fact' = DOMAIN heard'[at]
  <1>1. /\ at \in TargetIds /\ at' = at /\ bstep = s /\ bstep' = After[s]
        /\ bstep' \in AtTarget /\ paths' = paths
    BY DEF Asks, IInv, Control, AtTarget, Sources, After
  <1>2. heard = [n \in TargetIds |-> heard[n]] /\ DOMAIN fact = DOMAIN heard[at]
    BY <1>1 DEF IInv, Kept
  <1>3. CASE \E r, v : Answers(s, r, v)
    <2>1. PICK r, v : Answers(s, r, v)
      BY <1>3
    <2> DEFINE h == [x \in DOMAIN heard[at] \cup {s} |-> IF x = s THEN r ELSE heard[at][x]]
    <2>2. heard' = [heard EXCEPT ![at] = h]
      BY <2>1 DEF Answers
    <2>3. DOMAIN fact' = DOMAIN fact \cup {s}
      BY <2>1 DEF Answers
    <2>4. DOMAIN h = DOMAIN heard[at] \cup {s}
      OBVIOUS
    <2> HIDE DEF h
    <2>5. heard' = [n \in TargetIds |-> IF n = at THEN h ELSE heard[n]]
      BY <1>1, <1>2, <2>2
    <2>6. heard'[at] = h /\ \A n \in TargetIds : n # at => heard'[n] = heard[n]
      BY <1>1, <2>5
    <2>7. heard' = [n \in TargetIds |-> heard'[n]]
      BY <2>5
    <2> QED
      BY <1>1, <1>2, <2>3, <2>4, <2>6, <2>7
  <1>4. CASE Fails(s) \/ NotConfigured(s)
    <2>1. heard' = heard /\ fact' = fact
      BY <1>4 DEF Fails, NotConfigured
    <2> QED
      BY <1>1, <1>2, <2>1
  <1> QED
    BY <1>3, <1>4

\* The four readings of synthesizeOne.
Reading(s) ==
    /\ Asks(s)
    /\ \/ \E r, v : Answers(s, r, v)
       \/ Fails(s) \/ NotConfigured(s)

\* Each of them asks one source.
LEMMA Readings ==
    ASSUME GetBacklogTelemetry \/ GetStaffingGap \/ GetQueueStatus \/ DiagnoseStuckTasks
    PROVE  \E s \in Sources : Reading(s)
  <1>1. CASE GetBacklogTelemetry
    BY <1>1 DEF GetBacklogTelemetry, Reading, Sources
  <1>2. CASE GetStaffingGap
    BY <1>2 DEF GetStaffingGap, Reading, Sources
  <1>3. CASE GetQueueStatus
    BY <1>3 DEF GetQueueStatus, Reading, Sources
  <1>4. CASE DiagnoseStuckTasks
    BY <1>4 DEF DiagnoseStuckTasks, Reading, Sources
  <1> QED
    BY <1>1, <1>2, <1>3, <1>4

\* synthesizeOne: a reading keeps the invariant.
LEMMA ReadingKeeps == ASSUME IInv, NEW s \in Sources, Reading(s) PROVE IInv'
  <1>1. /\ at \in TargetIds /\ at' = at /\ bstep = s /\ bstep' = After[s]
        /\ bstep' \in AtTarget /\ paths' = paths
        /\ heard' = [n \in TargetIds |-> heard'[n]]
        /\ \A n \in TargetIds : n # at => heard'[n] = heard[n]
        /\ DOMAIN fact' = DOMAIN heard'[at]
    BY AsksOf DEF Reading
  <1>2. Control'
    BY <1>1 DEF IInv, Control, AtTarget, Sources
  <1>3. at \in Nat /\ \A n \in TargetIds : n \in Nat /\ n > 0
    BY TargetNumbers DEF IInv, Control
  <1>4. \E S : paths' \in Seq(S)
    BY <1>1 DEF IInv, Kept
  <1>5. /\ \A n \in TargetIds : n > at' => DOMAIN heard'[n] = {}
        /\ \A n \in TargetIds : n < at' => DOMAIN paths'[n].fact = DOMAIN heard'[n]
        /\ at' > 0 /\ Len(paths') = at' - 1
    BY <1>1, <1>3 DEF IInv, Kept
  <1>6. Kept'
    BY <1>1, <1>3, <1>4, <1>5 DEF Kept
  <1> QED
    BY <1>2, <1>6 DEF IInv

\* Append, for a sequence of anything.
LEMMA AppendOne ==
    ASSUME NEW s, NEW e, \E S : s \in Seq(S)
    PROVE  /\ \E S : Append(s, e) \in Seq(S)
           /\ Len(Append(s, e)) = Len(s) + 1
           /\ Append(s, e)[Len(s) + 1] = e
           /\ \A n \in 1..Len(s) : Append(s, e)[n] = s[n]
           /\ Len(s) \in Nat
  <1>1. PICK S : s \in Seq(S)
    OBVIOUS
  <1>2. s \in Seq(S \cup {e}) /\ e \in S \cup {e}
    BY <1>1
  <1> DEFINE T == S \cup {e}
  <1>3. s \in Seq(T) /\ e \in T
    BY <1>2
  <1> HIDE DEF T
  <1>4. Append(s, e) \in Seq(T)
    BY <1>3
  <1> QED
    BY <1>3, <1>4

\* Execute: the brief of the target joins the others, and what was held for
\* it is dropped.
LEMMA AddPathKeeps == ASSUME IInv, AddPath PROVE IInv'
  <1> DEFINE pb == SynthesizePathBrief(at, fact, unavailable)
  <1>1. /\ bstep = "add" /\ paths' = Append(paths, pb) /\ GoOn(at)
        /\ fact' = <<>> /\ heard' = heard
    BY DEF AddPath, Nothing
  <1>2. pb.fact = fact
    BY DEF SynthesizePathBrief
  <1> HIDE DEF pb
  <1>3. at \in 1..Len(Targets) /\ at \in TargetIds
    BY <1>1, TargetNumbers DEF IInv, Control, AtTarget
  <1>4. /\ at' = at + 1 /\ bstep' \in {"backlog", "rank"}
        /\ bstep' = "backlog" => at + 1 \in TargetIds
        /\ bstep' = "rank" => at = Len(Targets)
        /\ at + 1 \in TargetIds => bstep' = "backlog"
    BY <1>1, <1>3, GoOnMoves, TargetNumbers
  <1>5. Control'
    BY <1>3, <1>4, TargetNumbers DEF Control, AtTarget, Sources
  <1>6. Len(paths) = at - 1 /\ (\E S : paths \in Seq(S)) /\ DOMAIN fact = DOMAIN heard[at]
    BY <1>3, TargetNumbers DEF IInv, Kept
  <1>7. /\ \E S : paths' \in Seq(S)
        /\ Len(paths') = at /\ paths'[at] = pb
        /\ \A n \in 1..(at - 1) : paths'[n] = paths[n]
    <2>1. /\ \E S : Append(paths, pb) \in Seq(S)
          /\ Len(Append(paths, pb)) = Len(paths) + 1
          /\ Append(paths, pb)[Len(paths) + 1] = pb
          /\ \A n \in 1..Len(paths) : Append(paths, pb)[n] = paths[n]
      BY <1>6, AppendOne, ZenonT(40)
    <2>2. Len(paths) + 1 = at
      BY <1>3, <1>6, TargetNumbers
    <2> QED
      BY <1>1, <1>6, <2>1, <2>2
  <1>8. DOMAIN fact' = {}
    BY <1>1
  <1>9. ASSUME NEW n \in TargetIds, n < at' PROVE DOMAIN paths'[n].fact = DOMAIN heard'[n]
    <2>1. CASE n = at
      BY <1>1, <1>2, <1>6, <1>7, <2>1
    <2>2. CASE n < at
      <3>1. n \in 1..(at - 1)
        BY <1>3, <2>2, TargetNumbers
      <3> QED
        BY <1>1, <1>7, <2>2, <3>1 DEF IInv, Kept
    <2> QED
      BY <1>3, <1>4, <1>9, <2>1, <2>2, TargetNumbers
  <1>10. /\ \A n \in TargetIds : n >= at' => DOMAIN heard'[n] = {}
         /\ heard' = [n \in TargetIds |-> heard'[n]]
    <2>1. heard = [n \in TargetIds |-> heard[n]]
      BY DEF IInv, Kept
    <2>2. \A n \in TargetIds : n >= at' => n > at
      BY <1>3, <1>4, TargetNumbers
    <2>3. \A n \in TargetIds : n >= at' => DOMAIN heard[n] = {}
      BY <2>2 DEF IInv, Kept
    <2> QED
      BY <1>1, <2>1, <2>3
  <1>11. Kept'
    BY <1>3, <1>4, <1>7, <1>8, <1>9, <1>10, TargetNumbers DEF Kept
  <1> QED
    BY <1>5, <1>11 DEF IInv

\* Execute, listSites and the ranking.
LEMMA RestKeeps ==
    ASSUME IInv, ExecuteBrief \/ ListSites \/ Rank \/ UNCHANGED briefVars
    PROVE  IInv'
  <1>1. CASE ExecuteBrief
    BY <1>1 DEF ExecuteBrief, IInv, Control, Kept, AtTarget, Sources, pathVars
  <1>2. CASE ListSites
    <2>1. bstep = "list_sites" /\ at = 0 /\ GoOn(0)
      BY <1>2 DEF ListSites, IInv, Control
    <2>2. /\ at' = 1 /\ bstep' \in {"backlog", "rank"}
          /\ bstep' = "backlog" => 1 \in TargetIds
          /\ bstep' = "rank" => Len(Targets) = 0
      BY <2>1, GoOnMoves, TargetNumbers
    <2>3. fact' = fact /\ heard' = heard /\ paths' = paths
      BY <1>2 DEF ListSites, pathVars
    <2>4. Control'
      BY <2>2, TargetNumbers DEF Control, AtTarget, Sources
    <2>5. /\ \A n \in TargetIds : DOMAIN heard[n] = {}
          /\ paths = <<>> /\ DOMAIN fact = {} /\ (\E S : paths \in Seq(S))
          /\ heard = [n \in TargetIds |-> heard[n]]
      BY <2>1, TargetNumbers DEF IInv, Kept
    <2>6. Len(paths') = 0
      BY <2>3, <2>5
    <2>7. Kept'
      BY <2>2, <2>3, <2>5, <2>6, TargetNumbers DEF Kept
    <2> QED
      BY <2>4, <2>7 DEF IInv
  <1>3. CASE Rank
    BY <1>3, TargetNumbers DEF Rank, IInv, Control, Kept, AtTarget, Sources, pathVars
  <1>4. CASE UNCHANGED briefVars
    BY <1>4 DEF briefVars, pathVars, IInv, Control, Kept
  <1> QED
    BY <1>1, <1>2, <1>3, <1>4

\* Execute: what is held and shown of a target is what its contexts answered.
THEOREM Invariance == BriefSpec => []IInv
  <1>1. BriefInit => IInv
    <2> SUFFICES ASSUME BriefInit PROVE IInv
      OBVIOUS
    <2>1. /\ bstep = "idle" /\ at = 0 /\ paths = <<>> /\ fact = <<>>
          /\ heard = [n \in TargetIds |-> <<>>]
      BY DEF BriefInit, Nothing
    <2>2. paths \in Seq({})
      BY <2>1
    <2> QED
      BY <2>1, <2>2, TargetNumbers DEF IInv, Control, Kept, AtTarget, Sources
  <1>2. IInv /\ [BriefNext]_briefVars => IInv'
    BY Readings, ReadingKeeps, AddPathKeeps, RestKeeps DEF BriefNext
  <1> QED
    BY <1>1, <1>2, PTL DEF BriefSpec

-----------------------------------------------------------------------------
(* The refinement.                                                         *)

Parts == TargetIds \X Sources

\* A step that neither settles a reading nor shows anything is no step of the
\* report.
LEMMA StutterOf ==
    ASSUME \A n \in TargetIds, s \in Sources :
               BriefOutcome(n, s)' = BriefOutcome(n, s) /\ BriefShown(n, s)' = BriefShown(n, s)
    PROVE  UNCHANGED BriefReport!vars
  BY DEF BriefReport!vars

\* A step that settles one reading and shows nothing is the report's Settle.
LEMMA SettleOf ==
    ASSUME NEW n \in TargetIds, NEW s \in Sources,
           BriefOutcome(n, s) = "pending", BriefOutcome(n, s)' \in {"answered", "failed"},
           \A m \in TargetIds, t \in Sources :
               <<m, t>> # <<n, s>> => BriefOutcome(m, t)' = BriefOutcome(m, t),
           \A m \in TargetIds, t \in Sources : BriefShown(m, t)' = BriefShown(m, t)
    PROVE  BriefReport!Next
  <1> DEFINE p == <<n, s>>
  <1>1. p \in Parts /\ p[1] = n /\ p[2] = s
    BY DEF Parts
  <1>2. \A q \in Parts : q # p => BriefOutcome(q[1], q[2])' = BriefOutcome(q[1], q[2])
    BY DEF Parts
  <1>3. \A q \in Parts : BriefShown(q[1], q[2])' = BriefShown(q[1], q[2])
    BY DEF Parts
  <1>4. BriefOutcome(p[1], p[2]) = "pending" /\ BriefOutcome(p[1], p[2])' \in {"answered", "failed"}
    BY <1>1
  <1> HIDE DEF p
  <1>5. BriefReport!Settle(p)
    BY <1>1, <1>2, <1>3, <1>4 DEF BriefReport!Settle, BriefReport!Outcomes, Parts
  <1> QED
    BY <1>1, <1>5 DEF BriefReport!Next, Parts

\* synthesizeOne: a reading settles its own part and no other.
LEMMA ReadingSettles ==
    ASSUME IInv, NEW s \in Sources, Reading(s) PROVE BriefReport!Next
  <1>1. /\ at \in TargetIds /\ at' = at /\ bstep = s /\ bstep' = After[s]
        /\ \A n \in TargetIds : n # at => heard'[n] = heard[n]
        /\ \A x : x # s => (x \in DOMAIN heard'[at] <=> x \in DOMAIN heard[at])
    BY AsksOf DEF Reading
  <1>2. at \in Nat /\ \A n \in TargetIds : n \in Nat
    BY TargetNumbers DEF IInv, Control
  <1>3. ~Reached(at, s) /\ Reached(at, s)'
    BY <1>1, <1>2 DEF Reached, Sources, After
  <1>4. \A m \in TargetIds, t \in Sources :
            <<m, t>> # <<at, s>> => (Reached(m, t)' <=> Reached(m, t))
    BY <1>1, <1>2 DEF Reached, Sources, After
  <1>5. \A m \in TargetIds, t \in Sources : <<m, t>> # <<at, s>> =>
            (t \in DOMAIN heard'[m] <=> t \in DOMAIN heard[m])
    BY <1>1
  <1>6. \A m \in TargetIds, t \in Sources :
            <<m, t>> # <<at, s>> => BriefOutcome(m, t)' = BriefOutcome(m, t)
    BY <1>4, <1>5 DEF BriefOutcome
  <1>7. BriefOutcome(at, s) = "pending" /\ BriefOutcome(at, s)' \in {"answered", "failed"}
    BY <1>3 DEF BriefOutcome
  <1>8. bstep # "done" /\ bstep' # "done"
    BY <1>1 DEF Sources, After
  <1>9. \A m \in TargetIds, t \in Sources : BriefShown(m, t)' = BriefShown(m, t)
    BY <1>8 DEF BriefShown
  <1> QED
    BY <1>1, <1>6, <1>7, <1>9, SettleOf

\* Execute: the end of a target and of the list of sites settle nothing.
LEMMA LoopStutters ==
    ASSUME IInv, ExecuteBrief \/ ListSites \/ AddPath PROVE UNCHANGED BriefReport!vars
  <1>1. bstep # "done" /\ bstep' # "done" /\ heard' = heard
    BY DEF ExecuteBrief, ListSites, AddPath, GoOn
  <1>2. \A n \in TargetIds : n \in Nat
    BY TargetNumbers
  <1>3. \A n \in TargetIds, s \in Sources : Reached(n, s)' <=> Reached(n, s)
    <2>1. CASE ExecuteBrief
      BY <2>1 DEF ExecuteBrief, Reached, IInv, Control
    <2>2. CASE ListSites
      <3>1. at = 0 /\ bstep = "list_sites" /\ GoOn(0)
        BY <2>2 DEF ListSites, IInv, Control
      <3>2. /\ at' = 1 /\ bstep' \in {"backlog", "rank"}
            /\ bstep' = "rank" => Len(Targets) = 0
        BY <3>1, GoOnMoves, TargetNumbers
      <3> QED
        BY <3>1, <3>2, TargetNumbers DEF Reached
    <2>3. CASE AddPath
      <3>1. at \in 1..Len(Targets) /\ bstep = "add" /\ GoOn(at)
        BY <2>3, TargetNumbers DEF AddPath, IInv, Control, AtTarget
      <3>2. /\ at' = at + 1 /\ bstep' \in {"backlog", "rank"}
            /\ bstep' = "rank" => at = Len(Targets)
        BY <3>1, GoOnMoves, TargetNumbers
      <3> QED
        BY <3>1, <3>2, TargetNumbers DEF Reached
    <2> QED
      BY <2>1, <2>2, <2>3
  <1>4. \A n \in TargetIds, s \in Sources : BriefOutcome(n, s)' = BriefOutcome(n, s)
    BY <1>1, <1>3 DEF BriefOutcome
  <1>5. \A n \in TargetIds, s \in Sources : BriefShown(n, s)' = BriefShown(n, s)
    BY <1>1 DEF BriefShown
  <1> QED
    BY <1>4, <1>5, StutterOf

\* rankBySeverity: the brief is handed out with every part as it was settled.
LEMMA RankHandsOut == ASSUME IInv, Rank PROVE BriefReport!Next
  <1>1. /\ bstep = "rank" /\ bstep' = "done" /\ at' = at
        /\ paths' = paths /\ heard' = heard
    BY DEF Rank
  <1>2. at = Len(Targets) + 1 /\ \A n \in TargetIds : n < at
    BY <1>1, TargetNumbers DEF IInv, Control
  <1>3. ASSUME NEW n \in TargetIds, NEW s \in Sources
        PROVE  /\ BriefOutcome(n, s) # "pending" /\ BriefOutcome(n, s)' = BriefOutcome(n, s)
               /\ BriefShown(n, s) = "nothing" /\ BriefShown(n, s)' = BriefOutcome(n, s)
    <2>1. Reached(n, s) /\ Reached(n, s)'
      BY <1>1, <1>2 DEF Reached
    <2>2. DOMAIN paths[n].fact = DOMAIN heard[n]
      BY <1>2 DEF IInv, Kept
    <2> QED
      BY <1>1, <2>1, <2>2 DEF BriefOutcome, BriefShown
  <1>4. ASSUME NEW p \in Parts
        PROVE  /\ BriefOutcome(p[1], p[2]) # "pending"
               /\ BriefOutcome(p[1], p[2])' = BriefOutcome(p[1], p[2])
               /\ BriefShown(p[1], p[2]) = "nothing"
               /\ BriefShown(p[1], p[2])' = BriefOutcome(p[1], p[2])
    BY <1>3 DEF Parts
  <1>5. BriefReport!HandOut
    BY <1>4 DEF BriefReport!HandOut, BriefReport!Nothing, Parts
  <1> QED
    BY <1>5 DEF BriefReport!Next

\* Execute, synthesizeOne: the brief, for any list of targets and any choice
\* of clients, implements PartialReport.
THEOREM BriefImplementsReport == BriefSpec => BriefDegrades
  <1>1. BriefInit => BriefReport!Init
    <2> SUFFICES ASSUME BriefInit PROVE BriefReport!Init
      OBVIOUS
    <2>1. bstep = "idle" /\ at = 0
      BY DEF BriefInit
    <2>2. \A n \in TargetIds, s \in Sources :
              BriefOutcome(n, s) = "pending" /\ BriefShown(n, s) = "nothing"
      BY <2>1, TargetNumbers DEF BriefOutcome, BriefShown, Reached
    <2>3. \A p \in Parts :
              BriefOutcome(p[1], p[2]) = "pending" /\ BriefShown(p[1], p[2]) = "nothing"
      BY <2>2 DEF Parts
    <2> QED
      BY <2>3 DEF BriefReport!Init, BriefReport!Nothing, Parts
  <1>2. IInv /\ [BriefNext]_briefVars => [BriefReport!Next]_(BriefReport!vars)
    <2> SUFFICES ASSUME IInv, [BriefNext]_briefVars
                 PROVE  BriefReport!Next \/ UNCHANGED BriefReport!vars
      OBVIOUS
    <2>1. CASE UNCHANGED briefVars
      BY <2>1, StutterOf DEF briefVars, BriefOutcome, BriefShown, Reached
    <2> QED
      BY <2>1, Readings, ReadingSettles, LoopStutters, RankHandsOut DEF BriefNext
  <1> QED
    BY <1>1, <1>2, Invariance, PTL DEF BriefSpec, BriefDegrades, BriefReport!Spec

-----------------------------------------------------------------------------
(* The adapters take the steps of the brief and no others.                 *)

\* Every route and tool: a step of an adapter is a step of the brief, or
\* leaves it alone.
LEMMA AdapterStep == [Next]_vars => [BriefNext]_briefVars
  <1> SUFFICES ASSUME [Next]_vars PROVE BriefNext \/ UNCHANGED briefVars
    OBVIOUS
  <1>1. CASE UNCHANGED vars
    BY <1>1 DEF vars
  <1>2. CASE \/ NotWired \/ Healthz \/ RefuseSeverity \/ ReplyDailyBrief \/ ReplyOpenExceptions
             \/ ReplyRuntimeSignals \/ ReplyLifecycle \/ GetFlowBalanceException
             \/ FlowBalanceTool \/ StrandedReservation \/ ExplainTravelFactor \/ ServeDashboard
    <2>1. UNCHANGED inert
      BY <1>2 DEF NotWired, Healthz, RefuseSeverity, ReplyDailyBrief, ReplyOpenExceptions,
         ReplyRuntimeSignals, ReplyLifecycle, GetFlowBalanceException, FlowBalanceTool,
         StrandedReservation, ExplainTravelFactor, ServeDashboard
    <2> QED
      BY <2>1 DEF inert
  <1>3. CASE RunRuntimeSignals \/ RunLifecycle
    BY <1>3 DEF RunRuntimeSignals, RunLifecycle
  <1>4. CASE RunDailyBrief
    BY <1>4 DEF RunDailyBrief
  <1> QED
    BY <1>1, <1>2, <1>3, <1>4 DEF Next, Finished

\* getDailyBrief, listOpenExceptions: the adapters implement the brief.
THEOREM ServesBrief == Spec => BriefSpec
  <1>1. Init => BriefInit
    BY DEF Init
  <1> QED
    BY <1>1, AdapterStep, PTL DEF Spec, BriefSpec

\* Behind every route and tool, and whatever fails, the brief degrades reading
\* by reading and comes out whole.
THEOREM ServedBriefDegrades == Spec => BriefDegrades
  BY ServesBrief, BriefImplementsReport, PTL

-----------------------------------------------------------------------------
(* The runtime signals.  The flag telemetryFailed has to be exactly "some  *)
(* query failed" at every step, which holds only because no answer is ever *)
(* overwritten: each query of each service is asked at most once.          *)

RuntimeSpec == RuntimeInit /\ [][RuntimeNext]_runtimeVars

SomeFailed ==
    \E i \in ServiceIds, q \in Queries :
        asked.services[i][q] # <<>> /\ ~asked.services[i][q][1].ok

RuntimeControl ==
    /\ rstep \in {"idle", "logs", "total", "errors", "latency", "report", "done"}
    /\ svc \in Nat \ {0}
    /\ rstep \in {"idle", "logs", "total", "errors", "latency"} => svc \in ServiceIds
    /\ queryFailed \in BOOLEAN
    /\ missing \in Seq({"loki", "prometheus"})
    /\ rstep # "done" => "prometheus" \notin ToSet(missing)

\* The answers, one place for each query of each service.
Recorded ==
    /\ asked = [loki |-> asked.loki, services |-> asked.services]
    /\ asked.services = [i \in ServiceIds |-> asked.services[i]]
    /\ \A i \in ServiceIds : asked.services[i] = [q \in Queries |-> asked.services[i][q]]

\* What has not been asked yet.
Open(i, q) ==
    \/ i > svc
    \/ i = svc /\ rstep \in {"idle", "logs", "total"}
    \/ i = svc /\ rstep = "errors" /\ q \in {"errors", "latency"}
    \/ i = svc /\ rstep = "latency" /\ q = "latency"

AskedOnce == \A i \in ServiceIds, q \in Queries : Open(i, q) => asked.services[i][q] = <<>>

RInv == RuntimeControl /\ Recorded /\ AskedOnce /\ (queryFailed <=> SomeFailed)

\* The services are numbered from one.
LEMMA ServiceNumbers == Len(Services) \in Nat \ {0} /\ ServiceIds = 1..Len(Services)
  BY ServicesAssumption DEF ServiceIds

\* An answer or a failure says which of the two it is.
LEMMA SampleKinds == ASSUME NEW V, NEW x \in Sampled(V) PROVE x.ok \in BOOLEAN
  <1>1. \E v, b : b \in BOOLEAN /\ x = [value |-> v, ok |-> b]
    BY DEF Sampled, NoSample, Queried
  <1>2. PICK v, b : b \in BOOLEAN /\ x = [value |-> v, ok |-> b]
    BY <1>1
  <1>3. x.ok = b
    BY <1>2
  <1> QED
    BY <1>2, <1>3

\* errorRate, latencyP99: a query records its own answer and no other.
LEMMA HeardOnce ==
    ASSUME RInv, NEW q \in Queries, NEW x, svc \in ServiceIds, Open(svc, q),
           x.ok \in BOOLEAN, Heard(q, x)
    PROVE  /\ Recorded'
           /\ asked'.services[svc][q] = <<x>>
           /\ \A i \in ServiceIds, p \in Queries :
                  <<i, p>> # <<svc, q>> => asked'.services[i][p] = asked.services[i][p]
           /\ SomeFailed' <=> (SomeFailed \/ ~x.ok)
  <1> DEFINE g == [asked.services[svc] EXCEPT ![q] = <<x>>]
             f == [asked.services EXCEPT ![svc] = g]
  <1>1. Recorded
    BY DEF RInv
  <1>2. asked' = [asked EXCEPT !.services = f]
    BY DEF Heard
  <1>3. g = [p \in Queries |-> IF p = q THEN <<x>> ELSE asked.services[svc][p]]
    BY <1>1 DEF Recorded
  <1>4. f = [i \in ServiceIds |-> IF i = svc THEN g ELSE asked.services[i]]
    BY <1>1 DEF Recorded
  <1> HIDE DEF f, g
  <1>5. asked' = [loki |-> asked.loki, services |-> f]
    BY <1>1, <1>2 DEF Recorded
  <1>6. asked'.services = f /\ asked' = [loki |-> asked'.loki, services |-> asked'.services]
    BY <1>5
  <1>7. f[svc] = g /\ \A i \in ServiceIds : i # svc => f[i] = asked.services[i]
    BY <1>4
  <1>8. g[q] = <<x>> /\ \A p \in Queries : p # q => g[p] = asked.services[svc][p]
    BY <1>3
  <1>9. asked'.services[svc][q] = <<x>>
    BY <1>6, <1>7, <1>8
  <1>10. \A i \in ServiceIds, p \in Queries :
             <<i, p>> # <<svc, q>> => asked'.services[i][p] = asked.services[i][p]
    BY <1>6, <1>7, <1>8
  <1>11. Recorded'
    <2>1. asked'.services = [i \in ServiceIds |-> asked'.services[i]]
      BY <1>4, <1>6
    <2>2. ASSUME NEW i \in ServiceIds
          PROVE  asked'.services[i] = [p \in Queries |-> asked'.services[i][p]]
      <3>1. CASE i = svc
        BY <1>3, <1>6, <1>7, <3>1
      <3>2. CASE i # svc
        BY <1>1, <1>6, <1>7, <3>2 DEF Recorded
      <3> QED
        BY <3>1, <3>2
    <2> QED
      BY <1>6, <2>1, <2>2 DEF Recorded
  <1>12. asked.services[svc][q] = <<>>
    BY DEF RInv, AskedOnce
  <1>13. <<x>> # <<>> /\ <<x>>[1] = x
    OBVIOUS
  <1>14. SomeFailed' <=> (SomeFailed \/ ~x.ok)
    <2>1. ASSUME SomeFailed' PROVE SomeFailed \/ ~x.ok
      <3>1. PICK i \in ServiceIds, p \in Queries :
                asked'.services[i][p] # <<>> /\ ~asked'.services[i][p][1].ok
        BY <2>1 DEF SomeFailed
      <3> QED
        BY <1>9, <1>10, <1>13, <3>1 DEF SomeFailed
    <2>2. ASSUME SomeFailed PROVE SomeFailed'
      <3>1. PICK i \in ServiceIds, p \in Queries :
                asked.services[i][p] # <<>> /\ ~asked.services[i][p][1].ok
        BY <2>2 DEF SomeFailed
      <3>2. <<i, p>> # <<svc, q>>
        BY <1>12, <3>1
      <3> QED
        BY <1>10, <3>1, <3>2 DEF SomeFailed
    <2>3. ASSUME ~x.ok PROVE SomeFailed'
      BY <1>9, <1>13, <2>3 DEF SomeFailed
    <2> QED
      BY <2>1, <2>2, <2>3
  <1> QED
    BY <1>9, <1>10, <1>11, <1>14

\* Appending to the missing sources.
LEMMA AppendMissing ==
    ASSUME NEW s \in Seq({"loki", "prometheus"}), NEW e \in {"loki", "prometheus"}
    PROVE  /\ Append(s, e) \in Seq({"loki", "prometheus"})
           /\ ToSet(Append(s, e)) = ToSet(s) \cup {e}
  <1>1. /\ Append(s, e) \in Seq({"loki", "prometheus"})
        /\ Len(s) \in Nat
        /\ DOMAIN s = 1..Len(s) /\ DOMAIN Append(s, e) = 1..(Len(s) + 1)
        /\ \A i \in 1..Len(s) : Append(s, e)[i] = s[i]
        /\ Append(s, e)[Len(s) + 1] = e
    OBVIOUS
  <1>2. ASSUME NEW y \in ToSet(Append(s, e)) PROVE y \in ToSet(s) \cup {e}
    <2>1. PICK i \in 1..(Len(s) + 1) : Append(s, e)[i] = y
      BY <1>1 DEF ToSet
    <2>2. i \in 1..Len(s) \/ i = Len(s) + 1
      BY <1>1
    <2> QED
      BY <1>1, <2>1, <2>2 DEF ToSet
  <1>3. ASSUME NEW y \in ToSet(s) PROVE y \in ToSet(Append(s, e))
    <2>1. PICK i \in 1..Len(s) : s[i] = y
      BY <1>1 DEF ToSet
    <2>2. i \in 1..(Len(s) + 1) /\ Append(s, e)[i] = y
      BY <1>1, <2>1
    <2> QED
      BY <1>1, <2>2 DEF ToSet
  <1>4. e \in ToSet(Append(s, e))
    <2>1. Len(s) + 1 \in 1..(Len(s) + 1)
      BY <1>1
    <2> QED
      BY <1>1, <2>1 DEF ToSet
  <1> QED
    BY <1>1, <1>2, <1>3, <1>4

\* AddSignal: the loop moves to the next service or ends.
LEMMA AddSignalMoves ==
    ASSUME svc \in ServiceIds, NEW sig, AddSignal(sig)
    PROVE  /\ svc' = svc + 1 /\ rstep' \in {"total", "report"}
           /\ rstep' = "total" => svc + 1 \in ServiceIds
           /\ rstep' = "report" => svc = Len(Services)
  BY ServiceNumbers DEF AddSignal

\* Before the loop: the lines of Loki are counted, or Loki is missing.
LEMMA LogsKeep ==
    ASSUME RInv, ExecuteRuntime \/ CollectErrorLogs \/ LogsUnavailable PROVE RInv'
  <1>1. /\ rstep \in {"idle", "logs"} /\ rstep' \in {"logs", "total"}
        /\ svc' = svc /\ queryFailed' = queryFailed
    BY DEF ExecuteRuntime, CollectErrorLogs, LogsUnavailable
  <1>2. asked'.services = asked.services /\ asked' = [loki |-> asked'.loki, services |-> asked'.services]
    BY DEF ExecuteRuntime, CollectErrorLogs, LogsUnavailable, RInv, Recorded
  <1>3. missing' = missing \/ missing' = Append(missing, "loki")
    BY DEF ExecuteRuntime, CollectErrorLogs, LogsUnavailable
  <1>4. RuntimeControl'
    <2>1. missing' \in Seq({"loki", "prometheus"}) /\ "prometheus" \notin ToSet(missing')
      BY <1>1, <1>3, AppendMissing DEF RInv, RuntimeControl
    <2> QED
      BY <1>1, <2>1 DEF RInv, RuntimeControl
  <1>5. Recorded'
    BY <1>2 DEF RInv, Recorded
  <1>6. AskedOnce'
    BY <1>1, <1>2 DEF RInv, AskedOnce, Open
  <1>7. queryFailed' <=> SomeFailed'
    BY <1>1, <1>2 DEF RInv, SomeFailed
  <1> QED
    BY <1>4, <1>5, <1>6, <1>7 DEF RInv

\* errorRate, latencyP99: a query and the flag it may raise.
Query(q) ==
    \E x : /\ x.ok \in BOOLEAN /\ Heard(q, x)
           /\ queryFailed' = (queryFailed \/ ~x.ok)

\* The flag is raised by a failed query and by nothing else.
LEMMA QueryKeeps ==
    ASSUME RInv, NEW q \in Queries, svc \in ServiceIds, Open(svc, q), Query(q)
    PROVE  /\ Recorded' /\ queryFailed' \in BOOLEAN /\ (queryFailed' <=> SomeFailed')
           /\ \A i \in ServiceIds, p \in Queries :
                  <<i, p>> # <<svc, q>> => asked'.services[i][p] = asked.services[i][p]
  <1>1. PICK x : /\ x.ok \in BOOLEAN /\ Heard(q, x)
                 /\ queryFailed' = (queryFailed \/ ~x.ok)
    BY DEF Query
  <1>2. /\ Recorded' /\ (SomeFailed' <=> (SomeFailed \/ ~x.ok))
        /\ \A i \in ServiceIds, p \in Queries :
               <<i, p>> # <<svc, q>> => asked'.services[i][p] = asked.services[i][p]
    BY <1>1, HeardOnce
  <1> QED
    BY <1>1, <1>2 DEF RInv, RuntimeControl

\* errorRate: the queries that stay at the service.
LEMMA ErrorRateKeeps == ASSUME RInv, ErrorRateTotal \/ ErrorRate PROVE RInv'
  <1>1. PICK q \in {"total", "errors"} :
            /\ rstep = q /\ Query(q) /\ svc' = svc /\ missing' = missing
            /\ rstep' \in {"errors", "latency"} /\ (q = "errors" => rstep' = "latency")
    <2>1. CASE ErrorRateTotal
      BY <2>1, SampleKinds DEF ErrorRateTotal, Query
    <2>2. CASE ErrorRate
      BY <2>2, SampleKinds DEF ErrorRate, Query
    <2> QED
      BY <2>1, <2>2
  <1>2. svc \in ServiceIds /\ Open(svc, q) /\ q \in Queries
    BY <1>1 DEF RInv, RuntimeControl, Open, Queries
  <1>3. /\ Recorded' /\ queryFailed' \in BOOLEAN /\ (queryFailed' <=> SomeFailed')
        /\ \A i \in ServiceIds, p \in Queries :
               <<i, p>> # <<svc, q>> => asked'.services[i][p] = asked.services[i][p]
    BY <1>1, <1>2, QueryKeeps
  <1>4. RuntimeControl'
    BY <1>1, <1>2, <1>3 DEF RInv, RuntimeControl
  <1>5. \A i \in ServiceIds, p \in Queries : Open(i, p)' => Open(i, p) /\ <<i, p>> # <<svc, q>>
    BY <1>1, <1>2, ServiceNumbers DEF Open, Queries
  <1>6. AskedOnce'
    BY <1>3, <1>5 DEF RInv, AskedOnce
  <1> QED
    BY <1>3, <1>4, <1>6 DEF RInv

\* latencyP99 and the service without telemetry: the signal is added.
LEMMA ServiceKeeps == ASSUME RInv, LatencyP99 \/ WithoutTelemetry PROVE RInv'
  <1>1. /\ rstep \in {"latency", "total"} /\ missing' = missing
        /\ \E sig : AddSignal(sig)
    BY DEF LatencyP99, WithoutTelemetry
  <1>2. svc \in ServiceIds
    BY <1>1 DEF RInv, RuntimeControl
  <1>3. /\ svc' = svc + 1 /\ rstep' \in {"total", "report"}
        /\ rstep' = "total" => svc + 1 \in ServiceIds
    BY <1>1, <1>2, AddSignalMoves
  <1>4. /\ Recorded' /\ queryFailed' \in BOOLEAN /\ (queryFailed' <=> SomeFailed')
        /\ \A i \in ServiceIds, p \in Queries :
               i # svc => asked'.services[i][p] = asked.services[i][p]
    <2>1. CASE LatencyP99
      <3>1. Query("latency") /\ Open(svc, "latency") /\ "latency" \in Queries
        BY <2>1, SampleKinds DEF LatencyP99, Query, Open, Queries
      <3> QED
        BY <1>2, <3>1, QueryKeeps
    <2>2. CASE WithoutTelemetry
      BY <2>2 DEF WithoutTelemetry, RInv, RuntimeControl, Recorded, SomeFailed
    <2> QED
      BY <2>1, <2>2
  <1>5. RuntimeControl'
    BY <1>1, <1>2, <1>3, <1>4, ServiceNumbers DEF RInv, RuntimeControl
  <1>6. \A i \in ServiceIds, p \in Queries : Open(i, p)' => Open(i, p) /\ i # svc
    BY <1>2, <1>3, ServiceNumbers DEF Open
  <1>7. AskedOnce'
    BY <1>4, <1>6 DEF RInv, AskedOnce
  <1> QED
    BY <1>4, <1>5, <1>7 DEF RInv

\* The end of Execute.
LEMMA ReportKeeps == ASSUME RInv, ReportSignals PROVE RInv'
  <1>1. /\ rstep = "report" /\ rstep' = "done" /\ svc' = svc /\ asked' = asked
        /\ queryFailed' = queryFailed
        /\ missing' = missing \/ missing' = Append(missing, "prometheus")
    BY DEF ReportSignals
  <1>2. RuntimeControl'
    BY <1>1, AppendMissing DEF RInv, RuntimeControl
  <1>3. Recorded' /\ AskedOnce' /\ (queryFailed' <=> SomeFailed')
    BY <1>1, ServiceNumbers DEF RInv, RuntimeControl, Recorded, AskedOnce, Open, SomeFailed
  <1> QED
    BY <1>2, <1>3 DEF RInv

\* Execute: telemetryFailed says exactly whether some query failed so far.
THEOREM RuntimeInvariance == RuntimeSpec => []RInv
  <1>1. RuntimeInit => RInv
    <2> SUFFICES ASSUME RuntimeInit PROVE RInv
      OBVIOUS
    <2> DEFINE blank == [i \in ServiceIds |-> [q \in Queries |-> <<>>]]
    <2>1. /\ rstep = "idle" /\ svc = 1 /\ queryFailed = FALSE /\ missing = <<>>
          /\ asked = [loki |-> <<>>, services |-> blank]
      BY DEF RuntimeInit
    <2>2. asked.services = blank /\ asked.loki = <<>>
      BY <2>1
    <2>3. missing \in Seq({"loki", "prometheus"}) /\ DOMAIN missing = {}
      BY <2>1
    <2>4. "prometheus" \notin ToSet(missing)
      BY <2>3 DEF ToSet
    <2>5. svc \in Nat \ {0} /\ svc \in ServiceIds
      BY <2>1, ServiceNumbers
    <2>6. queryFailed \in BOOLEAN
      BY <2>1
    <2>7. RuntimeControl
      BY <2>1, <2>3, <2>4, <2>5, <2>6 DEF RuntimeControl
    <2>8. Recorded
      BY <2>1, <2>2 DEF Recorded
    <2>9. \A i \in ServiceIds, q \in Queries : asked.services[i][q] = <<>>
      BY <2>2
    <2> QED
      BY <2>1, <2>7, <2>8, <2>9 DEF RInv, AskedOnce, SomeFailed
  <1>2. RInv /\ [RuntimeNext]_runtimeVars => RInv'
    <2> SUFFICES ASSUME RInv, [RuntimeNext]_runtimeVars PROVE RInv'
      OBVIOUS
    <2>1. CASE UNCHANGED runtimeVars
      BY <2>1 DEF runtimeVars, RInv, RuntimeControl, Recorded, AskedOnce, Open, SomeFailed
    <2> QED
      BY <2>1, LogsKeep, ErrorRateKeeps, ServiceKeeps, ReportKeeps DEF RuntimeNext
  <1> QED
    BY <1>1, <1>2, PTL DEF RuntimeSpec

-----------------------------------------------------------------------------
(* The report they make.                                                   *)

SourceNames == {"loki", "prometheus"}

\* A step that settles no source and shows nothing is no step of the report.
LEMMA SignalStutter ==
    ASSUME \A s \in SourceNames :
               SignalOutcome(s)' = SignalOutcome(s) /\ SignalShown(s)' = SignalShown(s)
    PROVE  UNCHANGED SignalReport!vars
  BY DEF SignalReport!vars, SourceNames

\* A step that settles one source and shows nothing is the report's Settle.
LEMMA SignalSettle ==
    ASSUME NEW s \in SourceNames,
           SignalOutcome(s) = "pending", SignalOutcome(s)' \in {"answered", "failed"},
           \A t \in SourceNames : t # s => SignalOutcome(t)' = SignalOutcome(t),
           \A t \in SourceNames : SignalShown(t)' = SignalShown(t)
    PROVE  SignalReport!Next
  <1>1. SignalReport!Settle(s)
    BY DEF SignalReport!Settle, SignalReport!Outcomes, SourceNames
  <1> QED
    BY <1>1 DEF SignalReport!Next, SourceNames

\* collectErrorLogs: one query settles Loki, and nothing of Prometheus.
LEMMA LogsSettle ==
    ASSUME RInv, CollectErrorLogs \/ LogsUnavailable PROVE SignalReport!Next
  <1>1. rstep = "logs" /\ rstep' = "total"
    BY DEF CollectErrorLogs, LogsUnavailable
  <1>2. SignalOutcome("loki") = "pending" /\ SignalOutcome("loki")' \in {"answered", "failed"}
    BY <1>1 DEF SignalOutcome
  <1>3. SignalOutcome("prometheus")' = SignalOutcome("prometheus")
    BY <1>1 DEF SignalOutcome
  <1>4. \A t \in SourceNames : SignalShown(t)' = SignalShown(t)
    BY <1>1 DEF SignalShown
  <1> QED
    BY <1>2, <1>3, <1>4, SignalSettle DEF SourceNames

\* The loop over the services settles Prometheus with its last query.
LEMMA LoopSettles ==
    ASSUME RInv, ErrorRateTotal \/ ErrorRate \/ LatencyP99 \/ WithoutTelemetry
    PROVE  SignalReport!Next \/ UNCHANGED SignalReport!vars
  <1>1. /\ rstep \in {"total", "errors", "latency"}
        /\ rstep' \in {"total", "errors", "latency", "report"} /\ missing' = missing
    BY DEF ErrorRateTotal, ErrorRate, LatencyP99, WithoutTelemetry, AddSignal
  <1>2. SignalOutcome("loki")' = SignalOutcome("loki")
    BY <1>1 DEF SignalOutcome
  <1>3. \A t \in SourceNames : SignalShown(t)' = SignalShown(t)
    BY <1>1 DEF SignalShown
  <1>4. SignalOutcome("prometheus") = "pending"
    BY <1>1 DEF SignalOutcome
  <1>5. CASE rstep' # "report"
    <2>1. SignalOutcome("prometheus")' = "pending"
      BY <1>1, <1>5 DEF SignalOutcome
    <2> QED
      BY <1>2, <1>3, <1>4, <2>1, SignalStutter DEF SourceNames
  <1>6. CASE rstep' = "report"
    <2>1. SignalOutcome("prometheus")' \in {"answered", "failed"}
      BY <1>6 DEF SignalOutcome
    <2> QED
      BY <1>2, <1>3, <1>4, <2>1, SignalSettle DEF SourceNames
  <1> QED
    BY <1>5, <1>6

\* Execute: the unavailable sources of the report are those that failed.
LEMMA ReportHandsOut == ASSUME RInv, ReportSignals PROVE SignalReport!Next
  <1>1. /\ rstep = "report" /\ rstep' = "done" /\ asked' = asked /\ telemetry' = telemetry
        /\ missing' = IF telemetry = "nil" \/ queryFailed THEN Append(missing, "prometheus")
                       ELSE missing
    BY DEF ReportSignals
  <1>2. /\ missing \in Seq(SourceNames) /\ "prometheus" \notin ToSet(missing)
        /\ queryFailed <=> SomeFailed
    BY <1>1 DEF RInv, RuntimeControl, SourceNames
  <1>3. /\ "loki" \in ToSet(missing') <=> "loki" \in ToSet(missing)
        /\ "prometheus" \in ToSet(missing') <=> (telemetry = "nil" \/ SomeFailed)
    <2>1. CASE telemetry = "nil" \/ queryFailed
      <3>1. ToSet(missing') = ToSet(missing) \cup {"prometheus"}
        BY <1>1, <1>2, <2>1, AppendMissing DEF SourceNames
      <3> QED
        BY <1>2, <2>1, <3>1
    <2>2. CASE ~(telemetry = "nil" \/ queryFailed)
      BY <1>1, <1>2, <2>2
    <2> QED
      BY <2>1, <2>2
  <1>4. /\ SignalOutcome("loki") = IF "loki" \in ToSet(missing) THEN "failed" ELSE "answered"
        /\ SignalOutcome("prometheus") =
               IF telemetry = "nil" \/ SomeFailed THEN "failed" ELSE "answered"
    BY <1>1 DEF SignalOutcome, SomeFailed
  <1>5. \A s \in SourceNames : SignalShown(s) = "nothing"
    BY <1>1 DEF SignalShown
  <1>6. \A s \in SourceNames : SignalShown(s)' = SignalOutcome(s)
    BY <1>1, <1>3, <1>4 DEF SignalShown, SourceNames
  <1>7. \A s \in SourceNames : SignalOutcome(s)' = SignalOutcome(s)
    <2>1. SignalOutcome("loki")' = SignalOutcome("loki")
      BY <1>1, <1>3 DEF SignalOutcome
    <2>2. SignalOutcome("prometheus")' = SignalOutcome("prometheus")
      BY <1>1 DEF SignalOutcome
    <2> QED
      BY <2>1, <2>2 DEF SourceNames
  <1>8. \A s \in SourceNames : SignalOutcome(s) # "pending"
    BY <1>4 DEF SourceNames
  <1>9. SignalReport!HandOut
    BY <1>5, <1>6, <1>7, <1>8 DEF SignalReport!HandOut, SignalReport!Nothing, SourceNames
  <1> QED
    BY <1>9 DEF SignalReport!Next

\* Every route and tool: a step of an adapter is a step of the runtime
\* signals, or leaves them alone.
LEMMA RuntimeStep == [Next]_vars => [RuntimeNext]_runtimeVars
  <1> SUFFICES ASSUME [Next]_vars PROVE RuntimeNext \/ UNCHANGED runtimeVars
    OBVIOUS
  <1>1. CASE UNCHANGED inert \/ UNCHANGED vars
    BY <1>1 DEF inert, vars
  <1>2. CASE RunRuntimeSignals \/ RunLifecycle \/ RunDailyBrief
    BY <1>2 DEF RunRuntimeSignals, RunLifecycle, RunDailyBrief
  <1> QED
    BY <1>1, <1>2 DEF Next, Finished, NotWired, Healthz, RefuseSeverity, ReplyDailyBrief,
       ReplyOpenExceptions, ReplyRuntimeSignals, ReplyLifecycle, GetFlowBalanceException,
       FlowBalanceTool, StrandedReservation, ExplainTravelFactor, ServeDashboard

\* getRuntimeSignals: the adapters implement the report's own specification.
THEOREM ServesRuntimeSignals == Spec => RuntimeSpec
  <1>1. Init => RuntimeInit
    BY DEF Init
  <1> QED
    BY <1>1, RuntimeStep, PTL DEF Spec, RuntimeSpec

\* Execute: for any list of services and whichever queries fail, the report of
\* the runtime signals implements PartialReport, behind its route as well.
THEOREM ServedSignalsDegrade == Spec => SignalsDegrade
  <1>1. RuntimeInit => SignalReport!Init
    <2> SUFFICES ASSUME rstep = "idle" PROVE SignalReport!Init
      BY DEF RuntimeInit
    <2>1. \A s \in SourceNames : SignalOutcome(s) = "pending" /\ SignalShown(s) = "nothing"
      BY DEF SignalOutcome, SignalShown
    <2> QED
      BY <2>1 DEF SignalReport!Init, SignalReport!Nothing, SourceNames
  <1>2. RInv /\ [RuntimeNext]_runtimeVars => [SignalReport!Next]_(SignalReport!vars)
    <2> SUFFICES ASSUME RInv, [RuntimeNext]_runtimeVars
                 PROVE  SignalReport!Next \/ UNCHANGED SignalReport!vars
      OBVIOUS
    <2>1. CASE UNCHANGED runtimeVars
      BY <2>1, SignalStutter DEF runtimeVars, SignalOutcome, SignalShown
    <2>2. CASE ExecuteRuntime
      BY <2>2, SignalStutter DEF ExecuteRuntime, SignalOutcome, SignalShown
    <2> QED
      BY <2>1, <2>2, LogsSettle, LoopSettles, ReportHandsOut DEF RuntimeNext
  <1> QED
    BY <1>1, <1>2, ServesRuntimeSignals, RuntimeInvariance, PTL
    DEF RuntimeSpec, SignalsDegrade, SignalReport!Spec

-----------------------------------------------------------------------------
(* What the report says.  A service's grade is fixed once its last query   *)
(* is answered, so the invariant relates each signal already added to the  *)
(* answers recorded about its own service, and the values Execute carries  *)
(* between two queries to the answers they came from.                      *)

SignalSeverities == {"normal", "warning", "critical"}
SignalType ==
    [service : STRING, rate : Nat, latency : Nat \cup {NaN}, logs : Nat,
     rateSev : SignalSeverities, latencySev : SignalSeverities]

\* The parts of Grade.
AnswerTo(i, q) == asked.services[i][q]
LinesOf(i) == {k \in DOMAIN asked.loki : k <= LogLimit /\ Attributed(asked.loki[k]) = Services[i]}
Known(i, q) == AnswerTo(i, q) # <<>> /\ AnswerTo(i, q)[1].ok /\ AnswerTo(i, q)[1].value # NaN
Failing(i, p) == Known(i, "errors") /\ 100 * AnswerTo(i, "errors")[1].value >= p * AnswerTo(i, "total")[1].value
Slow(i, ms) == Known(i, "latency") /\ AnswerTo(i, "latency")[1].value >= ms

Worst(critical, warning) == IF critical THEN "critical" ELSE IF warning THEN "warning" ELSE "normal"

\* A service already reported.
Reported(i) == signals[i].service = Services[i] /\ SeverityOf(signals[i]) = Grade(i)

SInv ==
    /\ signals \in Seq(SignalType)
    /\ Len(signals) = svc - 1
    /\ rstep \in {"idle", "logs"} => svc = 1 /\ asked.loki = <<>>
    /\ rstep \in {"report", "done"} => svc = Len(Services) + 1
    /\ asked.loki \in Seq([app : STRING, container : STRING])
    /\ \A i \in ServiceIds : /\ counts[Services[i]] \in Nat
                             /\ counts[Services[i]] > 0 <=> LinesOf(i) # {}
    /\ rstep = "errors" => /\ total \in Nat \ {0} /\ AnswerTo(svc, "total") # <<>>
                           /\ AnswerTo(svc, "total")[1].value = total
    /\ rstep = "latency" => /\ rate \in Nat
                            /\ \A p \in {1, 5} : rate >= p <=> Failing(svc, p)
    /\ \A i \in ServiceIds : i < svc => Reported(i)

\* A sample is a value of the query's kind, and zero when the query failed.
LEMMA SampleValues ==
    ASSUME NEW V, NEW x \in Sampled(V)
    PROVE  x.value \in V \cup {0} /\ (~x.ok => x.value = 0) /\ x.ok \in BOOLEAN
  <1>1. \E v \in V \cup {0}, b \in BOOLEAN : x = [value |-> v, ok |-> b] /\ (~b => v = 0)
    BY DEF Sampled, NoSample, Queried
  <1>2. PICK v \in V \cup {0}, b \in BOOLEAN : x = [value |-> v, ok |-> b] /\ (~b => v = 0)
    BY <1>1
  <1>3. x.value = v /\ x.ok = b
    BY <1>2
  <1> QED
    BY <1>2, <1>3

\* The three queries' samples are numbers, or a latency that is none.
LEMMA SampleNumbers ==
    /\ \A x \in Sampled(Totals) \cup Sampled(Errors) :
           x.value \in Nat /\ x.value # NaN /\ x.ok \in BOOLEAN /\ (~x.ok => x.value = 0)
    /\ \A x \in Sampled(Latencies) :
           x.value \in Nat \cup {NaN} /\ x.ok \in BOOLEAN /\ (~x.ok => x.value = 0)
  <1>1. \A v \in Totals \cup Errors \cup {0} : v \in Nat /\ v # NaN
    BY TelemetryAssumption
  <1>2. Latencies \cup {0} \subseteq Nat \cup {NaN}
    BY TelemetryAssumption
  <1> QED
    BY <1>1, <1>2, SampleValues, Zenon

\* The error rate rounded down reaches a whole bound exactly when the exact
\* rate does: policy's >= on a float is decided by whole per cents.
LEMMA RateReaches ==
    ASSUME NEW e \in Nat, NEW t \in Nat \ {0}
    PROVE  /\ (100 * e) \div t \in Nat
           /\ \A p \in {1, 5} : (100 * e) \div t >= p <=> 100 * e >= p * t
  <1> DEFINE x == 100 * e
             r == x \div t
  <1>1. x \in Nat
    OBVIOUS
  <1> HIDE DEF x
  <1>2. r \in Int /\ x = t * r + (x % t) /\ 0 <= x % t /\ x % t < t /\ x % t \in Int
    BY <1>1
  <1> HIDE DEF r
  <1>3. r >= 0
    <2> SUFFICES ASSUME r <= -1 PROVE FALSE
      BY <1>2
    <2>1. t * r <= -t
      BY <1>2
    <2> QED
      BY <1>1, <1>2, <2>1
  <1>4. ASSUME NEW p \in {1, 5} PROVE r >= p <=> x >= p * t
    <2>1. r >= p => t * r >= t * p
      BY <1>2
    <2>2. r <= p - 1 => t * r <= t * (p - 1)
      BY <1>2
    <2> QED
      BY <1>1, <1>2, <2>1, <2>2
  <1> QED
    BY <1>2, <1>3, <1>4 DEF x, r

\* Grade, by its parts.
LEMMA GradeParts ==
    ASSUME NEW i
    PROVE  Grade(i) = Worst(Failing(i, 5) \/ Slow(i, 3000),
                            Failing(i, 1) \/ Slow(i, 1000) \/ LinesOf(i) # {})
  BY DEF Grade, Worst, Failing, Slow, Known, AnswerTo, LinesOf

\* A signal as bad as the worst of its three parts.
AsBad(sig, i, r, ms, n) ==
    /\ sig \in SignalType /\ sig.service = Services[i]
    /\ SeverityOf(sig) =
           Worst(r >= 5 \/ AtLeast(ms, 3000), r >= 1 \/ AtLeast(ms, 1000) \/ n > 0)

\* Severity: a signal is as bad as the worst of its three parts.
LEMMA SeverityParts ==
    ASSUME NEW i \in ServiceIds, NEW r \in Nat, NEW ms \in Nat \cup {NaN}, NEW n \in Nat
    PROVE  AsBad(ServiceSignal(i, r, ms, n), i, r, ms, n)
  <1> DEFINE a == ClassifyErrorRate(r)
             b == ClassifyLatencyP99(ms)
             sig == ServiceSignal(i, r, ms, n)
  <1>1. a = IF r >= 5 THEN "critical" ELSE IF r >= 1 THEN "warning" ELSE "normal"
    BY TelemetryAssumption DEF ClassifyErrorRate, AtLeast
  <1>2. b = IF AtLeast(ms, 3000) THEN "critical"
            ELSE IF AtLeast(ms, 1000) THEN "warning" ELSE "normal"
    BY DEF ClassifyLatencyP99
  <1>3. a \in SignalSeverities /\ b \in SignalSeverities
    BY <1>1, <1>2 DEF SignalSeverities
  <1> HIDE DEF a, b
  <1>4. /\ sig = [service |-> Services[i], rate |-> r, latency |-> ms, logs |-> n,
                  rateSev |-> a, latencySev |-> b]
    BY DEF ServiceSignal, a, b
  <1>5. Services[i] \in STRING
    BY ServicesAssumption DEF ServiceIds
  <1>6. /\ sig \in SignalType /\ sig.service = Services[i]
        /\ sig.rateSev = a /\ sig.latencySev = b /\ sig.logs = n
    BY <1>3, <1>4, <1>5 DEF SignalType
  <1> HIDE DEF sig
  <1>7. SeverityOf(sig) = Worst(r >= 5 \/ AtLeast(ms, 3000),
                                r >= 1 \/ AtLeast(ms, 1000) \/ n > 0)
    <2>1. /\ Worse("critical", "warning") /\ Worse("critical", "normal")
          /\ Worse("warning", "normal") /\ ~Worse("warning", "critical")
          /\ ~Worse("normal", "critical") /\ ~Worse("normal", "warning")
          /\ ~Worse("normal", "normal") /\ ~Worse("warning", "warning")
          /\ ~Worse("critical", "critical")
      BY DEF Worse, SignalRank
    <2>2. SeverityOf(sig) =
              LET sev == IF Worse(b, a) THEN b ELSE a
              IN  IF n > 0 /\ Worse("warning", sev) THEN "warning" ELSE sev
      BY <1>6 DEF SeverityOf
    <2>3. AtLeast(ms, 3000) => AtLeast(ms, 1000)
      BY TelemetryAssumption DEF AtLeast
    <2>4. r >= 5 => r >= 1
      OBVIOUS
    <2> QED
      BY <1>1, <1>2, <2>1, <2>2, <2>3, <2>4 DEF Worst
  <1>8. AsBad(sig, i, r, ms, n)
    BY <1>6, <1>7, Zenon DEF AsBad
  <1> QED
    BY <1>8, Zenon DEF sig

\* collectErrorLogs: a service has a count when one of the LogLimit newest lines
\* is its own.
LEMMA CountsLines ==
    ASSUME NEW lines \in Seq([app : STRING, container : STRING]), NEW s
    PROVE  LET K == {k \in DOMAIN Newest(lines) : Attributed(Newest(lines)[k]) = s}
               L == {k \in DOMAIN lines : k <= LogLimit /\ Attributed(lines[k]) = s}
           IN  Cardinality(K) \in Nat /\ (Cardinality(K) > 0 <=> L # {})
  <1> DEFINE n == IF Len(lines) < LogLimit THEN Len(lines) ELSE LogLimit
             K == {k \in DOMAIN Newest(lines) : Attributed(Newest(lines)[k]) = s}
             L == {k \in DOMAIN lines : k <= LogLimit /\ Attributed(lines[k]) = s}
  <1>1. n \in Nat /\ n <= Len(lines)
    BY LogLimitAssumption
  <1>2. /\ Len(Newest(lines)) = n /\ DOMAIN Newest(lines) = 1..n
        /\ \A k \in 1..n : Newest(lines)[k] = lines[k]
    <2> HIDE DEF n
    <2>1. Newest(lines) = SubSeq(lines, 1, n)
      BY DEF Newest, n
    <2> QED
      BY <1>1, <2>1
  <1>3. K = L /\ K \subseteq 1..n
    <2>1. \A k : k \in 1..n <=> k \in DOMAIN lines /\ k <= LogLimit
      BY LogLimitAssumption
    <2> HIDE DEF n
    <2> QED
      BY <1>2, <2>1
  <1>4. IsFiniteSet(1..n)
    BY <1>1, FS_Interval
  <1>5. IsFiniteSet(K)
    BY <1>3, <1>4, FS_Subset
  <1>6. Cardinality(K) \in Nat /\ (Cardinality(K) = 0 <=> K = {})
    BY <1>5, FS_CardinalityType, FS_EmptySet
  <1>7. \A c \in Nat : c > 0 <=> c # 0
    OBVIOUS
  <1> QED
    BY <1>3, <1>6, <1>7, Zenon

\* A query records its answer about its service, and changes nothing else.
LEMMA HeardFrame ==
    ASSUME RInv, NEW q \in Queries, NEW x, NEW i \in ServiceIds, i = svc, Open(svc, q),
           x.ok \in BOOLEAN, Heard(q, x)
    PROVE  /\ asked'.loki = asked.loki
           /\ AnswerTo(i, q)' = <<x>>
           /\ \A j \in ServiceIds, p \in Queries :
                  <<j, p>> # <<i, q>> => AnswerTo(j, p)' = AnswerTo(j, p)
  <1>1. /\ asked'.services[svc][q] = <<x>>
        /\ \A j \in ServiceIds, p \in Queries :
               <<j, p>> # <<svc, q>> => asked'.services[j][p] = asked.services[j][p]
    BY HeardOnce
  <1>2. asked'.loki = asked.loki
    <2> DEFINE f == [asked.services EXCEPT ![svc] = [asked.services[svc] EXCEPT ![q] = <<x>>]]
    <2>1. asked' = [asked EXCEPT !.services = f]
      BY DEF Heard
    <2> HIDE DEF f
    <2> QED
      BY <2>1 DEF RInv, Recorded
  <1> QED
    BY <1>1, <1>2 DEF AnswerTo

\* A grade depends on the answers about its service and on Loki's lines.
LEMMA GradeFrame ==
    ASSUME NEW i \in ServiceIds, asked'.loki = asked.loki,
           \A p \in Queries : AnswerTo(i, p)' = AnswerTo(i, p)
    PROVE  /\ Grade(i)' = Grade(i) /\ LinesOf(i)' = LinesOf(i)
           /\ \A p \in {1, 5} : Failing(i, p)' <=> Failing(i, p)
  <1>1. /\ AnswerTo(i, "total")' = AnswerTo(i, "total") /\ AnswerTo(i, "errors")' = AnswerTo(i, "errors")
        /\ AnswerTo(i, "latency")' = AnswerTo(i, "latency")
    BY DEF Queries
  <1>2. LinesOf(i)' = LinesOf(i)
    BY DEF LinesOf
  <1>3. \A p : Failing(i, p)' <=> Failing(i, p)
    BY <1>1 DEF Failing, Known
  <1>4. \A ms : Slow(i, ms)' <=> Slow(i, ms)
    BY <1>1 DEF Slow, Known
  <1>5. Grade(i)' = Worst(Failing(i, 5)' \/ Slow(i, 3000)',
                          Failing(i, 1)' \/ Slow(i, 1000)' \/ LinesOf(i)' # {})
    BY DEF Grade, Worst, Failing, Slow, Known, AnswerTo, LinesOf
  <1> QED
    BY <1>2, <1>3, <1>4, <1>5, GradeParts

\* Before the loop.
LEMMA LogsSignals ==
    ASSUME RInv, SInv, ExecuteRuntime \/ CollectErrorLogs \/ LogsUnavailable PROVE SInv'
  <1>1. /\ rstep \in {"idle", "logs"} /\ rstep' \in {"logs", "total"}
        /\ rstep' = "logs" => rstep = "idle"
        /\ UNCHANGED <<svc, signals>> /\ svc = 1 /\ asked.loki = <<>>
    BY DEF ExecuteRuntime, CollectErrorLogs, LogsUnavailable, SInv
  <1>2. /\ asked'.loki \in Seq([app : STRING, container : STRING])
        /\ rstep' = "logs" => asked'.loki = <<>>
        /\ \A i \in ServiceIds : /\ counts'[Services[i]] \in Nat
                                 /\ counts'[Services[i]] > 0 <=> LinesOf(i)' # {}
    <2>1. CASE CollectErrorLogs
      <3>1. PICK lines \in LogStores :
                /\ counts' = [s \in ToSet(Services) |->
                                 Cardinality({k \in DOMAIN Newest(lines) :
                                                  Attributed(Newest(lines)[k]) = s})]
                /\ asked' = [asked EXCEPT !.loki = lines]
        BY <2>1 DEF CollectErrorLogs
      <3>2. asked'.loki = lines /\ lines \in Seq([app : STRING, container : STRING])
        BY <3>1, TelemetryAssumption DEF RInv, Recorded
      <3>3. ASSUME NEW i \in ServiceIds
            PROVE  counts'[Services[i]] \in Nat /\ (counts'[Services[i]] > 0 <=> LinesOf(i)' # {})
        <4> DEFINE s == Services[i]
                   K == {k \in DOMAIN Newest(lines) : Attributed(Newest(lines)[k]) = s}
                   L == {k \in DOMAIN lines : k <= LogLimit /\ Attributed(lines[k]) = s}
        <4>1. s \in ToSet(Services)
          BY DEF ServiceIds, ToSet
        <4>2. counts'[s] = Cardinality(K)
          BY <3>1, <4>1
        <4>3. LinesOf(i)' = L
          BY <3>2 DEF LinesOf
        <4>4. Cardinality(K) \in Nat /\ (Cardinality(K) > 0 <=> L # {})
          BY <3>2, CountsLines, Zenon
        <4> HIDE DEF K, L
        <4> QED
          BY <4>2, <4>3, <4>4, Zenon
      <3> QED
        BY <2>1, <3>2, <3>3 DEF CollectErrorLogs
    <2>2. CASE ExecuteRuntime \/ LogsUnavailable
      <3>1. counts' = counts /\ asked' = asked
        BY <2>2 DEF ExecuteRuntime, LogsUnavailable
      <3> QED
        BY <1>1, <3>1 DEF SInv, LinesOf
    <2> QED
      BY <2>1, <2>2
  <1>3. \A i \in ServiceIds : ~(i < svc')
    BY <1>1, ServiceNumbers
  <1> QED
    BY <1>1, <1>2, <1>3 DEF SInv

\* What an answer about the service at hand leaves alone.
LEMMA ElsewhereSignals ==
    ASSUME RInv, SInv, NEW k \in ServiceIds, k = svc,
           UNCHANGED <<counts, signals>>, asked'.loki = asked.loki,
           \A j \in ServiceIds \ {k}, p \in Queries : AnswerTo(j, p)' = AnswerTo(j, p)
    PROVE  /\ \A i \in ServiceIds : /\ counts'[Services[i]] \in Nat
                                    /\ counts'[Services[i]] > 0 <=> LinesOf(i)' # {}
           /\ \A i \in ServiceIds : i < k => Reported(i)'
  <1>1. \A i \in ServiceIds : LinesOf(i)' = LinesOf(i)
    BY DEF LinesOf
  <1>2. ASSUME NEW i \in ServiceIds, i < k PROVE Reported(i)'
    <2>1. i # k /\ Reported(i)
      BY <1>2, ServiceNumbers DEF SInv
    <2>2. Grade(i)' = Grade(i)
      BY <2>1, GradeFrame
    <2> QED
      BY <2>1, <2>2 DEF Reported, SeverityOf
  <1> QED
    BY <1>1, <1>2 DEF SInv

\* errorRate's first query: without requests the rate is zero.
LEMMA TotalSignals == ASSUME RInv, SInv, ErrorRateTotal PROVE SInv'
  <1>1. PICK t \in Sampled(Totals) :
            /\ rstep = "total" /\ total' = t.value /\ Heard("total", t) /\ rate' = 0
            /\ rstep' = (IF t.value <= 0 THEN "latency" ELSE "errors")
            /\ UNCHANGED <<counts, svc, signals>>
    BY DEF ErrorRateTotal
  <1>2. t.value \in Nat /\ t.ok \in BOOLEAN
    BY SampleNumbers, Zenon
  <1>3. PICK k \in ServiceIds : k = svc
    BY <1>1 DEF RInv, RuntimeControl
  <1>4. "total" \in Queries /\ "errors" \in Queries /\ Open(svc, "total") /\ Open(svc, "errors")
    BY <1>1, <1>3 DEF Open, Queries
  <1>5. /\ asked'.loki = asked.loki /\ AnswerTo(k, "total")' = <<t>>
        /\ \A j \in ServiceIds, p \in Queries :
               <<j, p>> # <<k, "total">> => AnswerTo(j, p)' = AnswerTo(j, p)
    BY <1>1, <1>2, <1>3, <1>4, HeardFrame
  <1>6. AnswerTo(k, "errors")' = <<>>
    BY <1>3, <1>4, <1>5 DEF RInv, AskedOnce, AnswerTo
  <1>7. /\ \A i \in ServiceIds : /\ counts'[Services[i]] \in Nat
                                 /\ counts'[Services[i]] > 0 <=> LinesOf(i)' # {}
        /\ \A i \in ServiceIds : i < k => Reported(i)'
    <2>1. \A j \in ServiceIds \ {k}, p \in Queries : AnswerTo(j, p)' = AnswerTo(j, p)
      BY <1>5
    <2> QED
      BY <1>1, <1>3, <1>5, <2>1, ElsewhereSignals
  <1>8. rstep' = "latency" => rate' \in Nat /\ \A p \in {1, 5} : rate' >= p <=> Failing(k, p)'
    BY <1>1, <1>6 DEF Failing, Known
  <1>9. rstep' = "errors" => /\ total' \in Nat \ {0} /\ AnswerTo(k, "total")' # <<>>
                             /\ AnswerTo(k, "total")'[1].value = total'
    BY <1>1, <1>2, <1>5
  <1>10. rstep' \in {"latency", "errors"} /\ svc' = k
    BY <1>1, <1>3
  <1> QED
    BY <1>1, <1>3, <1>5, <1>7, <1>8, <1>9, <1>10 DEF SInv

\* errorRate's second query.
LEMMA ErrorsSignals == ASSUME RInv, SInv, ErrorRate PROVE SInv'
  <1>1. PICK e \in Sampled(Errors) :
            /\ rstep = "errors" /\ rate' = (100 * e.value) \div total /\ Heard("errors", e)
            /\ rstep' = "latency" /\ UNCHANGED <<counts, svc, total, signals>>
    BY DEF ErrorRate
  <1>2. e.value \in Nat /\ e.ok \in BOOLEAN /\ (~e.ok => e.value = 0) /\ e.value # NaN
    BY SampleNumbers, Zenon
  <1>3. PICK k \in ServiceIds : k = svc
    BY <1>1 DEF RInv, RuntimeControl
  <1>4. "total" \in Queries /\ "errors" \in Queries /\ Open(svc, "errors")
    BY <1>1, <1>3 DEF Open, Queries
  <1>5. /\ asked'.loki = asked.loki /\ AnswerTo(k, "errors")' = <<e>>
        /\ \A j \in ServiceIds, p \in Queries :
               <<j, p>> # <<k, "errors">> => AnswerTo(j, p)' = AnswerTo(j, p)
    BY <1>1, <1>2, <1>3, <1>4, HeardFrame
  <1>6. total \in Nat \ {0} /\ AnswerTo(k, "total")'[1].value = total
    <2>1. AnswerTo(k, "total")' = AnswerTo(k, "total")
      BY <1>4, <1>5
    <2> QED
      BY <1>1, <1>3, <2>1 DEF SInv
  <1>7. /\ \A i \in ServiceIds : /\ counts'[Services[i]] \in Nat
                                 /\ counts'[Services[i]] > 0 <=> LinesOf(i)' # {}
        /\ \A i \in ServiceIds : i < k => Reported(i)'
    <2>1. \A j \in ServiceIds \ {k}, p \in Queries : AnswerTo(j, p)' = AnswerTo(j, p)
      BY <1>5
    <2> QED
      BY <1>1, <1>3, <1>5, <2>1, ElsewhereSignals
  <1>8. rate' \in Nat /\ \A p \in {1, 5} : rate' >= p <=> 100 * e.value >= p * total
    BY <1>1, <1>2, <1>6, RateReaches
  <1>9. ASSUME NEW p \in {1, 5} PROVE rate' >= p <=> Failing(k, p)'
    <2>1. <<e>> # <<>> /\ <<e>>[1] = e
      OBVIOUS
    <2>2. Known(k, "errors")' <=> e.ok
      BY <1>2, <1>5, <2>1 DEF Known
    <2>3. Failing(k, p)' <=> e.ok /\ 100 * e.value >= p * total
      BY <1>5, <1>6, <2>1, <2>2 DEF Failing
    <2>4. ~e.ok => ~(100 * e.value >= p * total)
      BY <1>2, <1>6
    <2> QED
      BY <1>8, <2>3, <2>4
  <1>10. svc' = k
    BY <1>1, <1>3
  <1> QED
    BY <1>1, <1>3, <1>5, <1>7, <1>8, <1>9, <1>10 DEF SInv

\* The error rate and the latency Execute holds against the answers they came from.
RateTrue(k, r) == \A p \in {1, 5} : r >= p <=> Failing(k, p)
LatencyTrue(k, ms) == \A b \in {1000, 3000} : AtLeast(ms, b) <=> Slow(k, b)

\* Nothing is heard about the other services.
OthersKept(k) == \A j \in ServiceIds \ {k}, p \in Queries : AnswerTo(j, p)' = AnswerTo(j, p)

\* The end of the loop's body: the signal is as bad as its grade.
LEMMA AddSignalKeeps ==
    ASSUME RInv, SInv, rstep \in {"total", "latency"}, NEW k \in ServiceIds, k = svc,
           NEW r \in Nat, NEW ms \in Nat \cup {NaN},
           AddSignal(ServiceSignal(k, r, ms, counts[Services[k]])),
           counts' = counts, asked'.loki = asked.loki,
           OthersKept(k), RateTrue(k, r)', LatencyTrue(k, ms)'
    PROVE  SInv'
  <1>1. PICK n \in Nat : n = counts[Services[k]] /\ (n > 0 <=> LinesOf(k) # {})
    BY DEF SInv
  <1> DEFINE sig == ServiceSignal(k, r, ms, n)
  <1>0. signals \in Seq(SignalType) /\ Len(signals) = k - 1 /\ AddSignal(sig)
    BY <1>1 DEF SInv
  <1>2. /\ sig \in SignalType /\ sig.service = Services[k]
        /\ SeverityOf(sig) = Worst(r >= 5 \/ AtLeast(ms, 3000),
                                   r >= 1 \/ AtLeast(ms, 1000) \/ n > 0)
    <2>1. AsBad(sig, k, r, ms, n)
      BY SeverityParts, Zenon
    <2> HIDE DEF sig
    <2> QED
      BY <2>1, Zenon DEF AsBad
  <1>3. \A i \in ServiceIds : LinesOf(i)' = LinesOf(i)
    BY DEF LinesOf
  <1>4. SeverityOf(sig) = Grade(k)'
    <2>1. Grade(k)' = Worst(Failing(k, 5)' \/ Slow(k, 3000)',
                            Failing(k, 1)' \/ Slow(k, 1000)' \/ LinesOf(k)' # {})
      BY DEF Grade, Worst, Failing, Slow, Known, AnswerTo, LinesOf
    <2>2. /\ r >= 5 <=> Failing(k, 5)'
          /\ r >= 1 <=> Failing(k, 1)'
          /\ AtLeast(ms, 3000) <=> Slow(k, 3000)'
          /\ AtLeast(ms, 1000) <=> Slow(k, 1000)'
      BY DEF RateTrue, LatencyTrue
    <2> HIDE DEF sig
    <2> QED
      BY <1>1, <1>2, <1>3, <2>1, <2>2 DEF Worst
  <1>5. /\ signals' = Append(signals, sig) /\ svc' = k + 1
        /\ rstep' \in {"total", "report"} /\ (rstep' = "report" => svc' = Len(Services) + 1)
    BY <1>0, AddSignalMoves DEF AddSignal
  <1> HIDE DEF sig
  <1>6. /\ signals' \in Seq(SignalType) /\ Len(signals') = svc' - 1
        /\ signals'[k] = sig /\ \A i \in 1..(k - 1) : signals'[i] = signals[i]
    <2>1. k \in Nat \ {0}
      BY ServiceNumbers
    <2> QED
      BY <1>0, <1>2, <1>5, <2>1
  <1>7. ASSUME NEW i \in ServiceIds, i < svc' PROVE Reported(i)'
    <2>1. CASE i = k
      BY <1>2, <1>4, <1>6, <2>1 DEF Reported, SeverityOf
    <2>2. CASE i # k
      <3>1. i < k /\ i \in 1..(k - 1)
        BY <1>5, <1>7, <2>2, ServiceNumbers
      <3>2. Reported(i) /\ Grade(i)' = Grade(i)
        BY <2>2, <3>1, GradeFrame DEF SInv, OthersKept
      <3> QED
        BY <1>6, <3>1, <3>2 DEF Reported, SeverityOf
    <2> QED
      BY <2>1, <2>2
  <1>8. \A i \in ServiceIds : /\ counts'[Services[i]] \in Nat
                              /\ counts'[Services[i]] > 0 <=> LinesOf(i)' # {}
    BY <1>3 DEF SInv
  <1>9. asked'.loki \in Seq([app : STRING, container : STRING])
    BY DEF SInv
  <1> QED
    BY <1>5, <1>6, <1>7, <1>8, <1>9 DEF SInv

\* latencyP99 and the service without telemetry.
LEMMA ServiceSignals == ASSUME RInv, SInv, LatencyP99 \/ WithoutTelemetry PROVE SInv'
  <1>1. CASE LatencyP99
    <2>1. PICK l \in Sampled(Latencies) :
              /\ rstep = "latency" /\ Heard("latency", l) /\ counts' = counts
              /\ AddSignal(ServiceSignal(svc, rate, l.value, counts[Services[svc]]))
      BY <1>1 DEF LatencyP99
    <2>2. l.value \in Nat \cup {NaN} /\ l.ok \in BOOLEAN /\ (~l.ok => l.value = 0)
      BY SampleNumbers, Zenon
    <2>3. PICK k \in ServiceIds : k = svc
      BY <2>1 DEF RInv, RuntimeControl
    <2>4. "latency" \in Queries /\ "errors" \in Queries /\ "total" \in Queries
          /\ Open(svc, "latency")
      BY <2>1, <2>3 DEF Open, Queries
    <2>5. /\ asked'.loki = asked.loki /\ AnswerTo(k, "latency")' = <<l>>
          /\ \A j \in ServiceIds, p \in Queries :
                 <<j, p>> # <<k, "latency">> => AnswerTo(j, p)' = AnswerTo(j, p)
      BY <2>1, <2>2, <2>3, <2>4, HeardFrame
    <2>6. rate \in Nat /\ \A p \in {1, 5} : rate >= p <=> Failing(k, p)'
      <3>1. AnswerTo(k, "errors")' = AnswerTo(k, "errors") /\ AnswerTo(k, "total")' = AnswerTo(k, "total")
        BY <2>4, <2>5
      <3>2. \A p : Failing(k, p)' <=> Failing(k, p)
        BY <3>1 DEF Failing, Known
      <3> QED
        BY <2>1, <2>3, <3>2 DEF SInv
    <2>7. ASSUME NEW b \in {1000, 3000} PROVE AtLeast(l.value, b) <=> Slow(k, b)'
      <3>1. <<l>> # <<>> /\ <<l>>[1] = l
        OBVIOUS
      <3>2. Slow(k, b)' <=> l.ok /\ l.value # NaN /\ l.value >= b
        BY <2>5, <3>1 DEF Slow, Known
      <3>3. ~l.ok => ~AtLeast(l.value, b)
        BY <2>2 DEF AtLeast
      <3> QED
        BY <3>2, <3>3 DEF AtLeast
    <2>8. \A j \in ServiceIds \ {k}, p \in Queries : AnswerTo(j, p)' = AnswerTo(j, p)
      BY <2>5
    <2>9. AddSignal(ServiceSignal(k, rate, l.value, counts[Services[k]]))
      BY <2>1, <2>3
    <2>10. \A b \in {1000, 3000} : AtLeast(l.value, b) <=> Slow(k, b)'
      BY <2>7
    <2>11. PICK r \in Nat, ms \in Nat \cup {NaN} : r = rate /\ ms = l.value
      BY <2>2, <2>6
    <2>12. rstep \in {"total", "latency"} /\ counts' = counts /\ asked'.loki = asked.loki
      BY <2>1, <2>5
    <2>13. AddSignal(ServiceSignal(k, r, ms, counts[Services[k]]))
      BY <2>9, <2>11
    <2>14. OthersKept(k) /\ RateTrue(k, r)' /\ LatencyTrue(k, ms)'
      BY <2>6, <2>8, <2>10, <2>11 DEF OthersKept, RateTrue, LatencyTrue
    <2> QED
      BY <2>3, <2>12, <2>13, <2>14, AddSignalKeeps
  <1>2. CASE WithoutTelemetry
    <2>1. /\ rstep = "total" /\ asked' = asked /\ counts' = counts
          /\ AddSignal(ServiceSignal(svc, 0, 0, counts[Services[svc]]))
      BY <1>2 DEF WithoutTelemetry
    <2>2. PICK k \in ServiceIds : k = svc
      BY <2>1 DEF RInv, RuntimeControl
    <2>3. \A q \in Queries : AnswerTo(k, q)' = <<>>
      BY <2>1, <2>2 DEF RInv, AskedOnce, Open, AnswerTo
    <2>4. AnswerTo(k, "errors")' = <<>> /\ AnswerTo(k, "latency")' = <<>>
      BY <2>3 DEF Queries
    <2>5. \A p \in {1, 5} : 0 >= p <=> Failing(k, p)'
      BY <2>4 DEF Failing, Known
    <2>6. \A b \in {1000, 3000} : AtLeast(0, b) <=> Slow(k, b)'
      BY <2>4 DEF Slow, Known, AtLeast
    <2>7. \A j \in ServiceIds \ {k}, p \in Queries : AnswerTo(j, p)' = AnswerTo(j, p)
      BY <2>1 DEF AnswerTo
    <2>8. OthersKept(k) /\ RateTrue(k, 0)' /\ LatencyTrue(k, 0)'
      BY <2>5, <2>6, <2>7 DEF OthersKept, RateTrue, LatencyTrue
    <2> QED
      BY <2>1, <2>2, <2>8, AddSignalKeeps
  <1> QED
    BY <1>1, <1>2

\* Execute: for any list of services, any lines in Loki and whichever queries
\* fail, every service is reported once, in order, and as bad as the answers
\* about it alone say, behind its route as well.
THEOREM ServedSignalsAreTrue == Spec => []SignalsTrue
  <1>1. RuntimeInit => SInv
    <2> SUFFICES ASSUME RuntimeInit PROVE SInv
      OBVIOUS
    <2>1. /\ rstep = "idle" /\ svc = 1 /\ signals = <<>> /\ asked.loki = <<>>
          /\ \A i \in ServiceIds : counts[Services[i]] = 0
      BY DEF RuntimeInit, ServiceIds, ToSet
    <2>2. \A i \in ServiceIds : LinesOf(i) = {}
      BY <2>1 DEF LinesOf
    <2>3. \A i \in ServiceIds : ~(i < svc)
      BY <2>1, ServiceNumbers
    <2> QED
      BY <2>1, <2>2, <2>3 DEF SInv
  <1>2. RInv /\ SInv /\ [RuntimeNext]_runtimeVars => SInv'
    <2> SUFFICES ASSUME RInv, SInv, [RuntimeNext]_runtimeVars PROVE SInv'
      OBVIOUS
    <2>0. ASSUME UNCHANGED <<counts, svc, total, rate, signals, asked>>
          PROVE  /\ \A i : LinesOf(i)' = LinesOf(i)
                 /\ \A i, q : AnswerTo(i, q)' = AnswerTo(i, q)
                 /\ \A i, p : Failing(i, p)' <=> Failing(i, p)
                 /\ \A i : Reported(i)' <=> Reported(i)
      <3>1. /\ \A i : LinesOf(i)' = LinesOf(i)
            /\ \A i, q : AnswerTo(i, q)' = AnswerTo(i, q)
        BY <2>0 DEF LinesOf, AnswerTo
      <3>2. \A i, p : Failing(i, p)' <=> Failing(i, p)
        BY <3>1 DEF Failing, Known
      <3>3. \A i : Grade(i)' = Grade(i)
        BY <2>0 DEF Grade
      <3>4. \A i : Reported(i)' <=> Reported(i)
        BY <2>0, <3>3 DEF Reported, SeverityOf
      <3> QED
        BY <3>1, <3>2, <3>4
    <2>1. CASE UNCHANGED runtimeVars
      <3>1. UNCHANGED <<rstep, counts, svc, total, rate, signals, asked>>
        BY <2>1 DEF runtimeVars
      <3> QED
        BY <2>0, <3>1 DEF SInv
    <2>2. CASE ReportSignals
      <3>1. /\ UNCHANGED <<counts, svc, total, rate, signals, asked>>
            /\ rstep = "report" /\ rstep' = "done"
        BY <2>2 DEF ReportSignals
      <3> QED
        BY <2>0, <3>1 DEF SInv
    <2> QED
      BY <2>1, <2>2, LogsSignals, TotalSignals, ErrorsSignals, ServiceSignals DEF RuntimeNext
  <1>3. RInv /\ SInv => SignalsTrue
    <2> SUFFICES ASSUME RInv, SInv, rstep = "done" PROVE SignalsTrue
      BY DEF SignalsTrue
    <2>1. DOMAIN signals = ServiceIds /\ \A i \in ServiceIds : Reported(i)
      BY ServiceNumbers DEF SInv
    <2>2. Services = [i \in ServiceIds |-> Services[i]]
      BY ServicesAssumption DEF ServiceIds
    <2>3. [i \in DOMAIN signals |-> signals[i].service] = Services
      BY <2>1, <2>2 DEF Reported
    <2> QED
      BY <2>1, <2>3 DEF SignalsTrue, Reported
  <1> QED
    BY <1>1, <1>2, <1>3, ServesRuntimeSignals, RuntimeInvariance, PTL DEF RuntimeSpec

-----------------------------------------------------------------------------
(* The order lookup.  Every work unit before the current one was looked up *)
(* exactly once: it is among the answers or among the failures, and the    *)
(* tasks held are those of the answers, one work unit after another.       *)

Looking == {"tasks", "return"}

\* How far the lookup is.
LookupControl ==
    /\ ostep \in {"idle", "order", "inventory", "planning", "tasks", "return", "done"}
    /\ ostep # "done" => verdict = "none" /\ "fulfillment" \notin DOMAIN stages
    /\ ostep = "done" => verdict \in {"found", "not_found"}
    /\ ostep \in {"idle", "order", "inventory", "planning"} =>
           /\ unit = 0 /\ tasks = <<>> /\ "planning" \notin DOMAIN stages
           /\ lookups.planning = <<>> /\ lookups.tasks = <<>> /\ lookups.failed = {}
    /\ ostep \in Looking => Units = lookups.planning
    /\ unit \in Nat /\ lookups.planning \in Seq(STRING)
    /\ ostep = "tasks" => unit \in 1..Len(lookups.planning)
    /\ ostep = "return" => unit = Len(lookups.planning) + 1
    /\ verdict = "found" => unit = Len(lookups.planning) + 1 /\ Units = lookups.planning

\* What order-management said of the order.
OrderKnown ==
    /\ lookups = [order |-> lookups.order, planning |-> lookups.planning,
                  tasks |-> lookups.tasks, failed |-> lookups.failed]
    /\ ostep \in {"idle", "order"} => lookups.order = "unasked"
    /\ ostep \notin {"idle", "order", "done"} => lookups.order \in {"ok", "failed"}
    /\ ostep = "done" => (verdict = "not_found" <=> lookups.order = "not_found")
    /\ "order" \in DOMAIN stages <=> lookups.order = "ok"

\* The tasks of the work units before the current one.
TasksHeld ==
    /\ tasks \in Seq(STRING)
    /\ \A k \in DOMAIN lookups.tasks : lookups.tasks[k] \in Seq(STRING)
    /\ unit > 0 =>
           /\ DOMAIN lookups.tasks \subseteq 1..(unit - 1)
           /\ (1..(unit - 1)) \ DOMAIN lookups.tasks = lookups.failed
           /\ tasks = FlattenSeq([k \in 1..(unit - 1) |-> TasksOf(k)])
    /\ \A x : x \in ToSet(tasks) <=> \E k \in DOMAIN lookups.tasks : x \in ToSet(lookups.tasks[k])
    /\ verdict = "found" =>
           IF tasks = <<>> THEN "fulfillment" \notin DOMAIN stages
           ELSE "fulfillment" \in DOMAIN stages /\ stages["fulfillment"] = tasks

OInv == LookupControl /\ OrderKnown /\ TasksHeld

\* A stage that is filled in leaves the others alone.
LEMMA WithOne ==
    ASSUME NEW f, NEW key, NEW value
    PROVE  /\ DOMAIN With(f, key, value) = DOMAIN f \cup {key}
           /\ With(f, key, value)[key] = value
           /\ \A x \in DOMAIN f : x # key => With(f, key, value)[x] = f[x]
  BY DEF With

\* Execute, gatherOrder and gatherReservations: no task is held yet.
LEMMA StartKeepsLookup ==
    ASSUME OInv, ExecuteLifecycle \/ OrderNotFound \/ OrderUnavailable \/ GetOrder \/ GetReservations
    PROVE  OInv'
  <1>1. /\ ostep \in {"idle", "order", "inventory"} /\ unit' = unit /\ tasks' = tasks
        /\ unit = 0 /\ tasks = <<>> /\ "planning" \notin DOMAIN stages
        /\ lookups.planning = <<>> /\ lookups.tasks = <<>> /\ lookups.failed = {}
        /\ verdict = "none" /\ "fulfillment" \notin DOMAIN stages
    BY DEF ExecuteLifecycle, OrderNotFound, OrderUnavailable, GetOrder, GetReservations,
       OInv, LookupControl
  <1>2. PICK o : /\ o \in {"unasked", "ok", "failed", "not_found"}
                 /\ lookups' = [order |-> o, planning |-> <<>>, tasks |-> <<>>, failed |-> {}]
                 /\ ostep' \in {"order", "inventory", "planning", "done"}
                 /\ ostep' = "order" => o = "unasked"
                 /\ ostep' \in {"inventory", "planning"} => o \in {"ok", "failed"}
                 /\ ostep' = "done" => o = "not_found" /\ verdict' = "not_found"
                 /\ ostep' # "done" => verdict' = "none"
                 /\ "order" \in DOMAIN stages' <=> o = "ok"
                 /\ "planning" \notin DOMAIN stages' /\ "fulfillment" \notin DOMAIN stages'
    <2>1. lookups = [order |-> lookups.order, planning |-> <<>>, tasks |-> <<>>, failed |-> {}]
      BY <1>1 DEF OInv, OrderKnown
    <2>2. CASE ExecuteLifecycle
      BY <1>1, <2>1, <2>2 DEF ExecuteLifecycle, OInv, OrderKnown
    <2>3. CASE OrderNotFound
      BY <1>1, <2>1, <2>3 DEF OrderNotFound, OInv, OrderKnown
    <2>4. CASE OrderUnavailable
      BY <1>1, <2>1, <2>4 DEF OrderUnavailable, OInv, OrderKnown
    <2>5. CASE GetOrder
      <3>1. stages' = With(stages, "order", "ok")
        BY <2>5 DEF GetOrder
      <3>2. DOMAIN stages' = DOMAIN stages \cup {"order"}
        BY <3>1, WithOne
      <3> QED
        BY <1>1, <2>1, <2>5, <3>2 DEF GetOrder, OInv, OrderKnown
    <2>6. CASE GetReservations
      <3>1. stages' = stages \/ stages' = With(stages, "inventory", "ok")
        BY <2>6 DEF GetReservations
      <3>2. DOMAIN stages' = DOMAIN stages \/ DOMAIN stages' = DOMAIN stages \cup {"inventory"}
        BY <3>1, WithOne, ZenonT(40)
      <3> QED
        BY <1>1, <2>1, <2>6, <3>2 DEF GetReservations, OInv, OrderKnown
    <2> QED
      BY <2>2, <2>3, <2>4, <2>5, <2>6
  <1>3. /\ lookups'.order = o /\ lookups'.planning = <<>> /\ lookups'.tasks = <<>>
        /\ lookups'.failed = {} /\ <<>> \in Seq(STRING) /\ DOMAIN lookups'.tasks = {}
    BY <1>2
  <1>4. LookupControl'
    BY <1>1, <1>2, <1>3 DEF LookupControl, Looking
  <1>5. OrderKnown'
    BY <1>2, <1>3 DEF OrderKnown
  <1>6. TasksHeld'
    <2>1. \A x : x \notin ToSet(tasks')
      BY <1>1 DEF ToSet
    <2>2. unit' = 0 /\ verdict' # "found"
      BY <1>1, <1>2
    <2> QED
      BY <1>1, <1>3, <2>1, <2>2 DEF TasksHeld
  <1> QED
    BY <1>4, <1>5, <1>6 DEF OInv

\* gatherWorkUnits: the walk over the work units starts, or there are none.
LEMMA PlanningKeepsLookup == ASSUME OInv, GetWorkUnits \/ WorkUnitsUnavailable PROVE OInv'
  <1>1. /\ ostep = "planning" /\ verdict' = verdict /\ tasks' = tasks
        /\ tasks = <<>> /\ "planning" \notin DOMAIN stages
        /\ lookups.planning = <<>> /\ lookups.tasks = <<>> /\ lookups.failed = {}
        /\ verdict = "none" /\ "fulfillment" \notin DOMAIN stages
        /\ lookups.order \in {"ok", "failed"} /\ ("order" \in DOMAIN stages <=> lookups.order = "ok")
    BY DEF GetWorkUnits, WorkUnitsUnavailable, OInv, LookupControl, OrderKnown
  <1>2. PICK units \in Seq(STRING) :
            /\ lookups' = [order |-> lookups.order, planning |-> units, tasks |-> <<>>, failed |-> {}]
            /\ NextUnit(units, 0) /\ Units' = units
            /\ \A x \in {"order", "fulfillment"} : x \in DOMAIN stages' <=> x \in DOMAIN stages
    <2>1. lookups = [order |-> lookups.order, planning |-> <<>>, tasks |-> <<>>, failed |-> {}]
      BY <1>1 DEF OInv, OrderKnown
    <2>2. CASE GetWorkUnits
      <3>1. PICK units \in WorkUnitLists :
                /\ stages' = With(stages, "planning", units)
                /\ lookups' = [lookups EXCEPT !.planning = units]
                /\ NextUnit(units, 0)
        BY <2>2 DEF GetWorkUnits
      <3>2. DOMAIN stages' = DOMAIN stages \cup {"planning"} /\ stages'["planning"] = units
        <4> DEFINE st == With(stages, "planning", units)
        <4>1. DOMAIN st = DOMAIN stages \cup {"planning"} /\ st["planning"] = units
          BY DEF With
        <4> HIDE DEF st
        <4>2. stages' = st
          BY <3>1 DEF st
        <4> QED
          BY <4>1, <4>2
      <3>3. units \in Seq(STRING)
        BY <3>1, LookupAssumption
      <3>4. Units' = units
        BY <3>2 DEF Units
      <3>5. lookups' = [order |-> lookups.order, planning |-> units, tasks |-> <<>>, failed |-> {}]
        BY <2>1, <3>1, SMTT(30)
      <3> QED
        BY <3>1, <3>2, <3>3, <3>4, <3>5
    <2>3. CASE WorkUnitsUnavailable
      <3>1. stages' = stages /\ lookups' = lookups /\ NextUnit(<<>>, 0) /\ <<>> \in Seq(STRING)
        BY <2>3 DEF WorkUnitsUnavailable
      <3> QED
        BY <1>1, <2>1, <3>1 DEF Units
    <2> QED
      BY <2>2, <2>3
  <1>3. /\ lookups'.order = lookups.order /\ lookups'.planning = units /\ lookups'.tasks = <<>>
        /\ lookups'.failed = {} /\ DOMAIN lookups'.tasks = {}
        /\ lookups' = [order |-> lookups'.order, planning |-> lookups'.planning,
                       tasks |-> lookups'.tasks, failed |-> lookups'.failed]
    BY <1>2
  <1>4. /\ unit' = 1 /\ ostep' \in Looking /\ Len(units) \in Nat
        /\ ostep' = "tasks" => 0 < Len(units)
        /\ ostep' = "return" => Len(units) = 0
    BY <1>2 DEF NextUnit, Looking
  <1>5. LookupControl'
    BY <1>1, <1>2, <1>3, <1>4 DEF LookupControl, Looking
  <1>6. OrderKnown'
    BY <1>1, <1>2, <1>3, <1>4 DEF OrderKnown, Looking
  <1>7. TasksHeld'
    <2>1. tasks' = <<>> /\ tasks' \in Seq(STRING) /\ \A x : x \notin ToSet(tasks')
      BY <1>1 DEF ToSet
    <2> DEFINE none == [k \in 1..(unit' - 1) |-> TasksOf(k)']
    <2>2. none = <<>>
      BY <1>4
    <2>3. <<>> \in Seq(Seq(STRING))
      OBVIOUS
    <2> HIDE DEF none
    <2>4. FlattenSeq(none) = <<>>
      BY <2>2, <2>3, FlattenType
    <2>5. (1..(unit' - 1)) \ DOMAIN lookups'.tasks = lookups'.failed
      BY <1>3, <1>4
    <2> QED
      BY <1>1, <1>3, <2>1, <2>4, <2>5 DEF TasksHeld, none
  <1> QED
    BY <1>5, <1>6, <1>7 DEF OInv

\* gatherTasks: what one more work unit adds to the tasks of those before it.
LEMMA OneMoreUnit ==
    ASSUME TasksHeld, unit \in Nat \ {0},
           NEW found \in Seq(STRING), NEW fresh, DOMAIN fresh \subseteq 1..unit,
           \A k \in 1..(unit - 1) : k \in DOMAIN fresh <=> k \in DOMAIN lookups.tasks,
           \A k \in DOMAIN lookups.tasks : fresh[k] = lookups.tasks[k],
           unit \in DOMAIN fresh => fresh[unit] = found,
           unit \notin DOMAIN fresh => found = <<>>
    PROVE  /\ tasks \o found = FlattenSeq([k \in 1..unit |->
                                   IF k \in DOMAIN fresh THEN fresh[k] ELSE <<>>])
           /\ tasks \o found \in Seq(STRING)
           /\ \A k \in DOMAIN fresh : fresh[k] \in Seq(STRING)
           /\ \A x : x \in ToSet(tasks \o found) <=> \E k \in DOMAIN fresh : x \in ToSet(fresh[k])
  <1> DEFINE f == [k \in Nat |-> IF k \in DOMAIN fresh THEN fresh[k] ELSE <<>>]
  <1>1. PICK n \in Nat : n = unit - 1
    OBVIOUS
  <1>2. n + 1 = unit
    BY <1>1
  <1>3. DOMAIN lookups.tasks \subseteq 1..n
    BY <1>1 DEF TasksHeld
  <1>4. \A k \in DOMAIN fresh : k \in DOMAIN lookups.tasks \/ k = unit
    <2>1. \A k \in 1..unit : k \in 1..(unit - 1) \/ k = unit
      OBVIOUS
    <2> QED
      BY <2>1
  <1>5. \A k \in DOMAIN fresh : fresh[k] \in Seq(STRING)
    BY <1>4 DEF TasksHeld
  <1>6. \A k \in 1..n : f[k] = TasksOf(k)
    BY <1>1 DEF TasksOf
  <1>7. f[n + 1] = found
    BY <1>2
  <1>8. ASSUME NEW k \in 1..(n + 1) PROVE f[k] \in Seq(STRING)
    <2>1. f[k] = IF k \in DOMAIN fresh THEN fresh[k] ELSE <<>>
      OBVIOUS
    <2>2. <<>> \in Seq(STRING)
      OBVIOUS
    <2> HIDE DEF f
    <2> QED
      BY <1>5, <2>1, <2>2, Zenon
  <1>9. [k \in 1..unit |-> IF k \in DOMAIN fresh THEN fresh[k] ELSE <<>>]
            = [k \in 1..(n + 1) |-> f[k]]
    BY <1>2
  <1>10. tasks = FlattenSeq([k \in 1..n |-> f[k]])
    <2>1. tasks = FlattenSeq([k \in 1..n |-> TasksOf(k)])
      BY <1>1 DEF TasksHeld
    <2>2. [k \in 1..n |-> TasksOf(k)] = [k \in 1..n |-> f[k]]
      BY <1>6
    <2> QED
      BY <2>1, <2>2
  <1> HIDE DEF f
  <1>11. FlattenSeq([k \in 1..(n + 1) |-> f[k]]) = FlattenSeq([k \in 1..n |-> f[k]]) \o f[n + 1]
    BY <1>8, FlattenTable
  <1>12. tasks \in Seq(STRING) /\ tasks \o found \in Seq(STRING)
    BY DEF TasksHeld
  <1>13. ToSet(tasks \o found) = ToSet(tasks) \cup ToSet(found)
    <2>1. PICK t \in Seq(STRING) : t = tasks
      BY <1>12
    <2> QED
      BY <2>1, JoinedSet
  <1>14. ASSUME NEW x
         PROVE  x \in ToSet(tasks \o found) <=> \E k \in DOMAIN fresh : x \in ToSet(fresh[k])
    <2>1. x \in ToSet(tasks) <=> \E k \in DOMAIN lookups.tasks : x \in ToSet(lookups.tasks[k])
      BY DEF TasksHeld
    <2>2. \A k \in DOMAIN lookups.tasks : k \in DOMAIN fresh /\ fresh[k] = lookups.tasks[k]
      BY <1>1, <1>3
    <2>3. unit \notin DOMAIN fresh => ToSet(found) = {}
      BY DEF ToSet
    <2>4. unit \notin DOMAIN lookups.tasks
      BY <1>2, <1>3
    <2>5. ASSUME x \in ToSet(tasks) PROVE \E k \in DOMAIN fresh : x \in ToSet(fresh[k])
      BY <2>1, <2>2, <2>5
    <2>6. ASSUME x \in ToSet(found) PROVE \E k \in DOMAIN fresh : x \in ToSet(fresh[k])
      <3>1. unit \in DOMAIN fresh /\ fresh[unit] = found
        BY <2>3, <2>6
      <3> QED
        BY <2>6, <3>1
    <2>7. ASSUME NEW k \in DOMAIN fresh, x \in ToSet(fresh[k])
          PROVE  x \in ToSet(tasks) \cup ToSet(found)
      <3>1. CASE k \in DOMAIN lookups.tasks
        BY <2>1, <2>2, <2>7, <3>1
      <3>2. CASE k = unit
        BY <2>7, <3>2
      <3> QED
        BY <1>4, <3>1, <3>2
    <2> QED
      BY <1>13, <2>5, <2>6, <2>7
  <1> QED
    BY <1>5, <1>7, <1>9, <1>10, <1>11, <1>12, <1>14

\* gatherTasks: a work unit is looked up once, and its answer or its failure
\* is recorded beside its tasks.
LEMMA TasksKeepLookup == ASSUME OInv, GetTasks \/ TasksUnavailable PROVE OInv'
  <1>1. /\ ostep = "tasks" /\ verdict' = verdict /\ stages' = stages /\ verdict = "none"
        /\ unit \in 1..Len(lookups.planning) /\ Units = lookups.planning
        /\ "fulfillment" \notin DOMAIN stages /\ lookups.order \in {"ok", "failed"}
        /\ lookups.planning \in Seq(STRING) /\ unit \in Nat \ {0} /\ Len(lookups.planning) \in Nat
        /\ lookups = [order |-> lookups.order, planning |-> lookups.planning,
                      tasks |-> lookups.tasks, failed |-> lookups.failed]
        /\ NextUnit(lookups.planning, unit)
    BY DEF GetTasks, TasksUnavailable, OInv, LookupControl, OrderKnown, Looking
  <1>2. /\ DOMAIN lookups.tasks \subseteq 1..(unit - 1)
        /\ (1..(unit - 1)) \ DOMAIN lookups.tasks = lookups.failed
        /\ tasks \in Seq(STRING)
    BY <1>1 DEF OInv, TasksHeld
  <1> DEFINE Looked(found, fresh, failures) ==
                 /\ found \in Seq(STRING) /\ tasks' = tasks \o found
                 /\ lookups' = [order |-> lookups.order, planning |-> lookups.planning,
                                tasks |-> fresh, failed |-> failures]
                 /\ DOMAIN fresh \subseteq 1..unit
                 /\ \A k \in 1..(unit - 1) : k \in DOMAIN fresh <=> k \in DOMAIN lookups.tasks
                 /\ \A k \in DOMAIN lookups.tasks : fresh[k] = lookups.tasks[k]
                 /\ unit \in DOMAIN fresh => fresh[unit] = found
                 /\ unit \notin DOMAIN fresh => found = <<>>
                 /\ (1..unit) \ DOMAIN fresh = failures
  <1>3. \E found, fresh, failures : Looked(found, fresh, failures)
    <2>1. CASE GetTasks
      <3>1. PICK found \in TaskLists :
                /\ tasks' = tasks \o found
                /\ lookups' = [lookups EXCEPT !.tasks = With(lookups.tasks, unit, found)]
        BY <2>1 DEF GetTasks
      <3> DEFINE fresh == With(lookups.tasks, unit, found)
      <3>2. /\ DOMAIN fresh = DOMAIN lookups.tasks \cup {unit} /\ fresh[unit] = found
            /\ \A k \in DOMAIN lookups.tasks : k # unit => fresh[k] = lookups.tasks[k]
        BY DEF With
      <3> HIDE DEF fresh
      <3>3. found \in Seq(STRING)
        BY <3>1, LookupAssumption
      <3>4. lookups' = [order |-> lookups.order, planning |-> lookups.planning,
                        tasks |-> fresh, failed |-> lookups.failed]
        BY <1>1, <3>1 DEF fresh
      <3>5. /\ DOMAIN fresh \subseteq 1..unit
            /\ \A k \in 1..(unit - 1) : k \in DOMAIN fresh <=> k \in DOMAIN lookups.tasks
            /\ \A k \in DOMAIN lookups.tasks : fresh[k] = lookups.tasks[k]
            /\ (1..unit) \ DOMAIN fresh = lookups.failed
        <4>1. \A k \in 1..(unit - 1) : k \in 1..unit /\ k # unit
          BY <1>1
        <4>2. \A k \in 1..unit : k \in 1..(unit - 1) \/ k = unit
          BY <1>1
        <4>3. unit \in 1..unit /\ unit \notin 1..(unit - 1)
          BY <1>1
        <4> QED
          BY <1>2, <3>2, <4>1, <4>2, <4>3
      <3>6. Looked(found, fresh, lookups.failed)
        BY <3>1, <3>2, <3>3, <3>4, <3>5
      <3> HIDE DEF Looked
      <3> QED
        BY <3>6
    <2>2. CASE TasksUnavailable
      <3>1. /\ tasks' = tasks /\ lookups' = [lookups EXCEPT !.failed = lookups.failed \cup {unit}]
        BY <2>2 DEF TasksUnavailable
      <3>2. lookups' = [order |-> lookups.order, planning |-> lookups.planning,
                        tasks |-> lookups.tasks, failed |-> lookups.failed \cup {unit}]
        BY <1>1, <3>1
      <3>3. tasks' = tasks \o <<>> /\ <<>> \in Seq(STRING)
        BY <1>2, <3>1
      <3>4. /\ DOMAIN lookups.tasks \subseteq 1..unit /\ unit \notin DOMAIN lookups.tasks
            /\ (1..unit) \ DOMAIN lookups.tasks = lookups.failed \cup {unit}
        <4>1. 1..unit = (1..(unit - 1)) \cup {unit} /\ unit \notin 1..(unit - 1)
          BY <1>1
        <4> QED
          BY <1>2, <4>1
      <3>5. \A k \in 1..(unit - 1) : k \in DOMAIN lookups.tasks <=> k \in DOMAIN lookups.tasks
        OBVIOUS
      <3>6. Looked(<<>>, lookups.tasks, lookups.failed \cup {unit})
        BY <3>2, <3>3, <3>4, <3>5
      <3> HIDE DEF Looked
      <3> QED
        BY <3>6
    <2> QED
      BY <2>1, <2>2
  <1>9. PICK found, fresh, failures : Looked(found, fresh, failures)
    BY <1>3
  <1>4. /\ lookups'.order = lookups.order /\ lookups'.planning = lookups.planning
        /\ lookups'.tasks = fresh /\ lookups'.failed = failures
        /\ lookups' = [order |-> lookups'.order, planning |-> lookups'.planning,
                       tasks |-> lookups'.tasks, failed |-> lookups'.failed]
    BY <1>9
  <1>5. /\ unit' = unit + 1 /\ ostep' \in Looking
        /\ ostep' = "tasks" => unit < Len(lookups.planning)
        /\ ostep' = "return" => unit = Len(lookups.planning)
    BY <1>1 DEF NextUnit, Looking
  <1>6. LookupControl'
    <2>1. Units' = lookups'.planning
      BY <1>1, <1>4 DEF Units
    <2> QED
      BY <1>1, <1>4, <1>5, <2>1 DEF LookupControl, Looking
  <1>7. OrderKnown'
    BY <1>1, <1>4, <1>5 DEF OInv, OrderKnown, Looking
  <1>8. TasksHeld'
    <2>1. /\ tasks' = FlattenSeq([k \in 1..unit |-> IF k \in DOMAIN fresh THEN fresh[k] ELSE <<>>])
          /\ tasks' \in Seq(STRING)
          /\ \A k \in DOMAIN fresh : fresh[k] \in Seq(STRING)
          /\ \A x : x \in ToSet(tasks') <=> \E k \in DOMAIN fresh : x \in ToSet(fresh[k])
      <3>1. TasksHeld /\ unit \in Nat \ {0}
        BY <1>1 DEF OInv
      <3> QED
        BY <1>9, <3>1, OneMoreUnit
    <2>2. unit' - 1 = unit
      BY <1>1, <1>5
    <2>3. [k \in 1..unit |-> IF k \in DOMAIN fresh THEN fresh[k] ELSE <<>>]
              = [k \in 1..(unit' - 1) |-> TasksOf(k)']
      BY <1>4, <2>2 DEF TasksOf
    <2>4. /\ DOMAIN lookups'.tasks \subseteq 1..(unit' - 1)
          /\ (1..(unit' - 1)) \ DOMAIN lookups'.tasks = lookups'.failed
      BY <1>9, <1>4, <2>2
    <2>5. verdict' # "found"
      BY <1>1
    <2>6. tasks' = FlattenSeq([k \in 1..(unit' - 1) |-> TasksOf(k)'])
      BY <2>1, <2>3
    <2> QED
      BY <1>4, <2>1, <2>4, <2>5, <2>6 DEF TasksHeld
  <1> QED
    BY <1>6, <1>7, <1>8 DEF OInv

\* Execute returns: the stage of the tasks is filled in when there are any.
LEMMA ReturnKeepsLookup == ASSUME OInv, ReturnLifecycle PROVE OInv'
  <1>1. /\ ostep = "return" /\ ostep' = "done" /\ verdict' = "found" /\ unit' = unit
        /\ tasks' = tasks /\ lookups' = lookups /\ unit = Len(lookups.planning) + 1
        /\ lookups.order \in {"ok", "failed"} /\ "fulfillment" \notin DOMAIN stages
    BY DEF ReturnLifecycle, OInv, LookupControl, OrderKnown
  <1>2. /\ "order" \in DOMAIN stages' <=> "order" \in DOMAIN stages
        /\ IF tasks' = <<>> THEN "fulfillment" \notin DOMAIN stages'
           ELSE "fulfillment" \in DOMAIN stages' /\ stages'["fulfillment"] = tasks'
        /\ Units' = Units
    <2>1. CASE tasks = <<>>
      BY <1>1, <2>1 DEF ReturnLifecycle, Units
    <2>2. CASE tasks # <<>>
      <3> DEFINE st == With(stages, "fulfillment", tasks)
      <3>1. /\ DOMAIN st = DOMAIN stages \cup {"fulfillment"} /\ st["fulfillment"] = tasks
            /\ "planning" \in DOMAIN stages => st["planning"] = stages["planning"]
        BY DEF With
      <3>2. stages' = st
        BY <2>2 DEF ReturnLifecycle
      <3> HIDE DEF st
      <3>3. Units' = Units
        BY <3>1, <3>2 DEF Units
      <3> QED
        BY <1>1, <2>2, <3>1, <3>2, <3>3
    <2> QED
      BY <2>1, <2>2
  <1>3. LookupControl'
    <2>1. Units' = lookups'.planning
      BY <1>1, <1>2 DEF OInv, LookupControl, Looking
    <2> QED
      BY <1>1, <2>1 DEF OInv, LookupControl, Looking
  <1>4. OrderKnown'
    BY <1>1, <1>2 DEF OInv, OrderKnown
  <1>5. TasksHeld'
    <2>1. [k \in 1..(unit' - 1) |-> TasksOf(k)'] = [k \in 1..(unit - 1) |-> TasksOf(k)]
      BY <1>1 DEF TasksOf
    <2>2. TasksHeld
      BY DEF OInv
    <2> QED
      BY <1>1, <1>2, <2>1, <2>2 DEF TasksHeld
  <1> QED
    BY <1>3, <1>4, <1>5 DEF OInv

\* Execute: each work unit so far was looked up once and its tasks are held.
THEOREM LookupInvariance == LifecycleSpec => []OInv
  <1>1. LifecycleInit => OInv
    <2> SUFFICES ASSUME LifecycleInit PROVE OInv
      OBVIOUS
    <2>1. /\ ostep = "idle" /\ unit = 0 /\ stages = <<>> /\ tasks = <<>> /\ verdict = "none"
          /\ lookups = [order |-> "unasked", planning |-> <<>>, tasks |-> <<>>, failed |-> {}]
      BY DEF LifecycleInit, Nil
    <2>2. /\ lookups.order = "unasked" /\ lookups.planning = <<>> /\ lookups.tasks = <<>>
          /\ lookups.failed = {} /\ DOMAIN stages = {} /\ DOMAIN lookups.tasks = {}
          /\ <<>> \in Seq(STRING) /\ \A x : x \notin ToSet(tasks)
      BY <2>1 DEF ToSet
    <2>3. LookupControl
      BY <2>1, <2>2 DEF LookupControl, Looking
    <2>4. OrderKnown
      BY <2>1, <2>2 DEF OrderKnown
    <2>5. TasksHeld
      BY <2>1, <2>2 DEF TasksHeld
    <2> QED
      BY <2>3, <2>4, <2>5 DEF OInv
  <1>2. OInv /\ [LifecycleNext]_lifecycleVars => OInv'
    <2> SUFFICES ASSUME OInv, [LifecycleNext]_lifecycleVars PROVE OInv'
      OBVIOUS
    <2>1. CASE UNCHANGED lifecycleVars
      <3>1. [k \in 1..(unit' - 1) |-> TasksOf(k)'] = [k \in 1..(unit - 1) |-> TasksOf(k)]
        BY <2>1 DEF lifecycleVars, TasksOf
      <3>2. TasksHeld'
        BY <2>1, <3>1 DEF OInv, TasksHeld, lifecycleVars
      <3> QED
        BY <2>1, <3>2 DEF OInv, lifecycleVars, LookupControl, OrderKnown, Units
    <2> QED
      BY <2>1, StartKeepsLookup, PlanningKeepsLookup, TasksKeepLookup, ReturnKeepsLookup
      DEF LifecycleNext
  <1> QED
    BY <1>1, <1>2, PTL DEF LifecycleSpec

\* getOrderLifecycle: a step of an adapter is a step of the lookup, or leaves
\* it alone.
LEMMA LookupStep == [Next]_vars => [LifecycleNext]_lifecycleVars
  <1> SUFFICES ASSUME [Next]_vars PROVE LifecycleNext \/ UNCHANGED lifecycleVars
    OBVIOUS
  <1>1. CASE UNCHANGED vars
    BY <1>1 DEF vars
  <1>2. CASE \/ NotWired \/ Healthz \/ RefuseSeverity \/ ReplyDailyBrief \/ ReplyOpenExceptions
             \/ ReplyRuntimeSignals \/ ReplyLifecycle \/ GetFlowBalanceException
             \/ FlowBalanceTool \/ StrandedReservation \/ ExplainTravelFactor \/ ServeDashboard
    <2>1. UNCHANGED inert
      BY <1>2 DEF NotWired, Healthz, RefuseSeverity, ReplyDailyBrief, ReplyOpenExceptions,
         ReplyRuntimeSignals, ReplyLifecycle, GetFlowBalanceException, FlowBalanceTool,
         StrandedReservation, ExplainTravelFactor, ServeDashboard
    <2> QED
      BY <2>1 DEF inert
  <1>3. CASE RunRuntimeSignals \/ RunDailyBrief
    BY <1>3 DEF RunRuntimeSignals, RunDailyBrief
  <1>4. CASE RunLifecycle
    BY <1>4 DEF RunLifecycle
  <1> QED
    BY <1>1, <1>2, <1>3, <1>4 DEF Next, Finished

\* getOrderLifecycle: the adapters implement the lookup.
THEOREM ServesLookup == Spec => LifecycleSpec
  <1>1. Init => LifecycleInit
    BY DEF Init
  <1> QED
    BY <1>1, LookupStep, PTL DEF Spec, LifecycleSpec

\* Execute, gatherTasks: whatever lists of work units and tasks the contexts
\* return, and whichever lookups fail, an order is reported missing only on
\* order-management's word and the tasks are those of every work unit whose
\* own lookup answered, in order.
THEOREM ServedLookupIsTrue == Spec => []LifecycleTrue
  <1>1. OInv => LifecycleTrue
    <2> SUFFICES ASSUME OInv, ostep = "done"
                 PROVE  /\ verdict = "not_found" <=> lookups.order = "not_found"
                        /\ verdict = "found" =>
                             /\ "order" \in DOMAIN stages <=> lookups.order = "ok"
                             /\ Units = lookups.planning
                             /\ DOMAIN lookups.planning \ DOMAIN lookups.tasks = lookups.failed
                             /\ (IF "fulfillment" \in DOMAIN stages THEN stages["fulfillment"] ELSE <<>>)
                                  = FlattenSeq([k \in DOMAIN lookups.planning |-> TasksOf(k)])
      BY DEF LifecycleTrue
    <2>1. (verdict = "not_found" <=> lookups.order = "not_found")
          /\ ("order" \in DOMAIN stages <=> lookups.order = "ok")
      BY DEF OInv, OrderKnown
    <2>2. ASSUME verdict = "found"
          PROVE  /\ Units = lookups.planning
                 /\ DOMAIN lookups.planning \ DOMAIN lookups.tasks = lookups.failed
                 /\ (IF "fulfillment" \in DOMAIN stages THEN stages["fulfillment"] ELSE <<>>)
                      = FlattenSeq([k \in DOMAIN lookups.planning |-> TasksOf(k)])
      <3>1. /\ unit = Len(lookups.planning) + 1 /\ lookups.planning \in Seq(STRING)
            /\ Units = lookups.planning
            /\ IF tasks = <<>> THEN "fulfillment" \notin DOMAIN stages
               ELSE "fulfillment" \in DOMAIN stages /\ stages["fulfillment"] = tasks
        BY <2>2 DEF OInv, LookupControl, TasksHeld
      <3>2. unit > 0 /\ DOMAIN lookups.planning = 1..(unit - 1)
        BY <3>1
      <3>3. /\ (1..(unit - 1)) \ DOMAIN lookups.tasks = lookups.failed
            /\ tasks = FlattenSeq([k \in 1..(unit - 1) |-> TasksOf(k)])
        BY <3>2 DEF OInv, TasksHeld
      <3>4. (IF "fulfillment" \in DOMAIN stages THEN stages["fulfillment"] ELSE <<>>) = tasks
        BY <3>1
      <3> QED
        BY <3>1, <3>2, <3>3, <3>4
    <2> QED
      BY <2>1, <2>2
  <1> QED
    BY <1>1, ServesLookup, LookupInvariance, PTL

-----------------------------------------------------------------------------
(* What the brief shows of a path.  While a target is read, the facts held *)
(* fire exactly when its answers alarm, and the sources listed as missing  *)
(* are those asked so far that did not answer, each once.                  *)

Signals == {"backlog", "staffing", "stuck"}
Names == Sources \cup {"wes", "wfm", "fe"}

\* The sources of the current target that were asked.
Asked == {s \in Sources : Reached(at, s)}

\* Those of S that are missing for target n, a context without a client once.
Gone(n, S) ==
    {s \in S : Client[s] \in wired /\ s \notin DOMAIN heard[n]}
        \cup ({Client[s] : s \in S} \ wired)

\* The list names each of the set once.
ListsOnce(list, S) == list \in Seq(Names) /\ ToSet(list) = S /\ Len(list) = Cardinality(S)

AtHand ==
    /\ at \notin TargetIds => fact = <<>> /\ unavailable = <<>>
    /\ at \in TargetIds =>
           /\ DOMAIN heard[at] \subseteq Asked
           /\ \A s \in Signals : Fires(s, fact) <=> Alarm(at, s)
           /\ ListsOnce(unavailable, Gone(at, Asked))

Shown ==
    \A n \in TargetIds : n < at =>
        /\ paths[n].target = n
        /\ \A s \in Signals : Fires(s, paths[n].fact) <=> Alarm(n, s)
        /\ ListsOnce(paths[n].unavailable, Silent(n))

FInv == AtHand /\ Shown

\* A target names its site and its queue.
LEMMA TargetFields == \A n \in TargetIds : Targets[n].site \in STRING /\ Targets[n].processPath \in STRING
  <1> DEFINE R == [site : STRING, processPath : STRING]
  <1>1. Targets \in Seq(R) /\ TargetIds = 1..Len(Targets)
    BY TargetsAssumption, TargetNumbers
  <1>2. \A x \in R : x.site \in STRING /\ x.processPath \in STRING
    OBVIOUS
  <1> HIDE DEF R
  <1>3. \A n \in TargetIds : Targets[n] \in R
    BY <1>1
  <1> QED
    BY <1>2, <1>3

\* countForPath: the count is positive when some stuck task is the path's.
LEMMA CountTrue ==
    ASSUME NEW r, r.count \in Int, r.tasks \in Seq(STRING), NEW p \in STRING
    PROVE  CountForPath(r, p) > 0 <=> IF p = "" THEN r.count > 0 ELSE p \in ToSet(r.tasks)
  <1>0. PICK list \in Seq(STRING) : list = r.tasks
    OBVIOUS
  <1> DEFINE S == {i \in DOMAIN list : list[i] = p}
  <1>1. Len(list) \in Nat /\ DOMAIN list = 1..Len(list)
    OBVIOUS
  <1>2. IsFiniteSet(1..Len(list))
    BY <1>1, FS_Interval
  <1>3. IsFiniteSet(S)
    BY <1>1, <1>2, FS_Subset
  <1>4. Cardinality(S) \in Nat /\ (Cardinality(S) = 0 <=> S = {})
    BY <1>3, FS_CardinalityType, FS_EmptySet
  <1>5. CASE p = ""
    BY <1>5 DEF CountForPath
  <1>6. CASE p # ""
    <2>1. CountForPath(r, p) = Cardinality(S)
      BY <1>0, <1>6 DEF CountForPath
    <2>2. p \in ToSet(r.tasks) <=> S # {}
      BY <1>0 DEF ToSet
    <2> HIDE DEF S
    <2>3. Cardinality(S) > 0 <=> S # {}
      BY <1>4
    <2> QED
      BY <1>6, <2>1, <2>2, <2>3, Zenon
  <1> QED
    BY <1>5, <1>6

\* What synthesizeOne takes from the answer of a source.
Takes(s, r, v) ==
    /\ s \in {"backlog", "staffing"} => r \in BOOLEAN /\ v = r
    /\ s = "stuck" => r \in StuckReadings /\ v = CountForPath(r, Targets[at].processPath)

TrueReading(s) ==
    /\ Asks(s)
    /\ \/ \E r, v : Answers(s, r, v) /\ Takes(s, r, v)
       \/ Fails(s) \/ NotConfigured(s)

\* Each of the four readings takes what its source says.
LEMMA TrueReadings ==
    ASSUME GetBacklogTelemetry \/ GetStaffingGap \/ GetQueueStatus \/ DiagnoseStuckTasks
    PROVE  \E s \in Sources : TrueReading(s)
  <1>1. CASE GetBacklogTelemetry
    <2>1. TrueReading("backlog")
      BY <1>1 DEF GetBacklogTelemetry, TrueReading, Takes
    <2> QED
      BY <2>1 DEF Sources
  <1>2. CASE GetStaffingGap
    <2>1. StaffingReadings \subseteq BOOLEAN
      BY TargetsAssumption
    <2>2. TrueReading("staffing")
      BY <1>2, <2>1 DEF GetStaffingGap, TrueReading, Takes
    <2> QED
      BY <2>2 DEF Sources
  <1>3. CASE GetQueueStatus
    <2>1. TrueReading("queue")
      BY <1>3 DEF GetQueueStatus, TrueReading, Takes
    <2> QED
      BY <2>1 DEF Sources
  <1>4. CASE DiagnoseStuckTasks
    <2>1. TrueReading("stuck")
      BY <1>4 DEF DiagnoseStuckTasks, TrueReading, Takes
    <2> QED
      BY <2>1 DEF Sources
  <1> QED
    BY <1>1, <1>2, <1>3, <1>4

\* An answer changes the fact and the alarm of its own source together.
LEMMA AnswerSpeaks ==
    ASSUME IInv, FInv, at \in TargetIds, at' = at, NEW s \in Sources, NEW r, NEW v,
           Answers(s, r, v), Takes(s, r, v)
    PROVE  \A x \in Signals : Fires(x, fact') <=> Alarm(at, x)'
  <1> SUFFICES ASSUME NEW x \in Signals PROVE Fires(x, fact') <=> Alarm(at, x)'
    OBVIOUS
  <1> DEFINE f == [y \in DOMAIN fact \cup {s} |-> IF y = s THEN v ELSE fact[y]]
             h == [y \in DOMAIN heard[at] \cup {s} |-> IF y = s THEN r ELSE heard[at][y]]
  <1>1. heard = [n \in TargetIds |-> heard[n]] /\ DOMAIN fact = DOMAIN heard[at]
    BY DEF IInv, Kept
  <1>2. fact' = f /\ heard'[at] = h
    BY <1>1 DEF Answers
  <1>3. /\ DOMAIN f = DOMAIN fact \cup {s} /\ DOMAIN h = DOMAIN fact \cup {s}
        /\ f[s] = v /\ h[s] = r
        /\ \A y \in DOMAIN fact : y # s => f[y] = fact[y] /\ h[y] = heard[at][y]
    BY <1>1
  <1> HIDE DEF f, h
  <1>4. Alarm(at, x)' <=> /\ x \in DOMAIN h
                          /\ IF x = "stuck"
                             THEN IF Targets[at].processPath = "" THEN h[x].count > 0
                                  ELSE Targets[at].processPath \in ToSet(h[x].tasks)
                             ELSE h[x]
    BY <1>2 DEF Alarm
  <1>5. CASE x # s
    <2>1. x \in DOMAIN h <=> x \in DOMAIN heard[at]
      BY <1>1, <1>3, <1>5
    <2>2. x \in DOMAIN f <=> x \in DOMAIN fact
      BY <1>3, <1>5
    <2>3. x \in DOMAIN fact => f[x] = fact[x] /\ h[x] = heard[at][x]
      BY <1>3, <1>5
    <2>4. Fires(x, f) <=> Fires(x, fact)
      BY <2>2, <2>3 DEF Fires
    <2>5. Alarm(at, x)' <=> Alarm(at, x)
      BY <1>1, <1>4, <2>1, <2>3 DEF Alarm
    <2>6. Fires(x, fact) <=> Alarm(at, x)
      BY DEF FInv, AtHand
    <2> QED
      BY <1>2, <2>4, <2>5, <2>6
  <1>6. CASE x = s /\ x # "stuck"
    <2>1. x \in DOMAIN f /\ x \in DOMAIN h /\ f[x] = v /\ h[x] = r
      BY <1>3, <1>6
    <2>2. r \in BOOLEAN /\ v = r
      BY <1>6 DEF Takes, Signals
    <2>3. Fires(x, f) <=> v
      BY <1>6, <2>1 DEF Fires
    <2>4. Alarm(at, x)' <=> r
      BY <1>4, <1>6, <2>1
    <2> QED
      BY <1>2, <2>2, <2>3, <2>4
  <1>7. CASE x = s /\ x = "stuck"
    <2>1. x \in DOMAIN f /\ x \in DOMAIN h /\ f[x] = v /\ h[x] = r
      BY <1>3, <1>7
    <2>2. /\ r.count \in Int /\ r.tasks \in Seq(STRING)
          /\ v = CountForPath(r, Targets[at].processPath)
      <3>1. StuckReadings \subseteq [count : Int, tasks : Seq(STRING)]
        BY TargetsAssumption
      <3> QED
        BY <1>7, <3>1 DEF Takes
    <2>3. PICK p \in STRING : p = Targets[at].processPath
      BY TargetFields
    <2>4. v > 0 <=> IF p = "" THEN r.count > 0 ELSE p \in ToSet(r.tasks)
      BY <2>2, <2>3, CountTrue
    <2>5. Fires(x, f) <=> v > 0
      BY <1>7, <2>1 DEF Fires
    <2>6. Alarm(at, x)' <=> IF p = "" THEN r.count > 0 ELSE p \in ToSet(r.tasks)
      BY <1>4, <1>7, <2>1, <2>3
    <2> QED
      BY <1>2, <2>4, <2>5, <2>6
  <1> QED
    BY <1>5, <1>6, <1>7

\* append: one name more, and it was not listed yet.
LEMMA ListsOneMore ==
    ASSUME NEW S, IsFiniteSet(S), NEW list, ListsOnce(list, S), NEW e \in Names, e \notin S
    PROVE  ListsOnce(Append(list, e), S \cup {e}) /\ IsFiniteSet(S \cup {e})
  <1>1. list \in Seq(Names) /\ ToSet(list) = S /\ Len(list) = Cardinality(S)
    BY DEF ListsOnce
  <1>2. /\ Append(list, e) \in Seq(Names) /\ Len(Append(list, e)) = Len(list) + 1
        /\ ToSet(Append(list, e)) = ToSet(list) \cup {e}
    BY <1>1, Appended, AppendedSet
  <1>3. Cardinality(S \cup {e}) = Cardinality(S) + 1 /\ IsFiniteSet(S \cup {e})
    BY FS_AddElement
  <1> QED
    BY <1>1, <1>2, <1>3 DEF ListsOnce

\* The names of sources and contexts are few and differ.
LEMMA GoneFacts ==
    ASSUME NEW n, NEW S \in SUBSET Sources
    PROVE  IsFiniteSet(Gone(n, S)) /\ Gone(n, S) \subseteq Names
  <1>1. IsFiniteSet(Names)
    <2>1. Names = {"backlog", "staffing", "queue", "stuck", "wes", "wfm", "fe"}
      BY DEF Names, Sources
    <2>2. IsFiniteSet({}) /\ IsFiniteSet({"backlog"})
      BY FS_EmptySet, FS_Singleton
    <2>3. IsFiniteSet({"backlog"} \cup {"staffing"} \cup {"queue"} \cup {"stuck"})
      BY <2>2, FS_Singleton, FS_Union
    <2>4. IsFiniteSet({"wes"} \cup {"wfm"} \cup {"fe"})
      BY FS_Singleton, FS_Union
    <2>5. IsFiniteSet(({"backlog"} \cup {"staffing"} \cup {"queue"} \cup {"stuck"})
                          \cup ({"wes"} \cup {"wfm"} \cup {"fe"}))
      BY <2>3, <2>4, FS_Union
    <2>6. Names = ({"backlog"} \cup {"staffing"} \cup {"queue"} \cup {"stuck"})
                      \cup ({"wes"} \cup {"wfm"} \cup {"fe"})
      BY <2>1
    <2> QED
      BY <2>5, <2>6
  <1>2. \A s \in Sources : Client[s] \in {"wes", "wfm", "fe"}
    BY DEF Sources, Client
  <1>3. Gone(n, S) \subseteq Names
    BY <1>2 DEF Gone, Names
  <1> QED
    BY <1>1, <1>3, FS_Subset

\* Which sources were asked, at each step.
LEMMA AskedAt ==
    ASSUME at \in TargetIds
    PROVE  /\ Asked \subseteq Sources
           /\ bstep = "backlog" => Asked = {}
           /\ bstep = "staffing" => Asked = {"backlog"}
           /\ bstep = "queue" => Asked = {"backlog", "staffing"}
           /\ bstep = "stuck" => Asked = {"backlog", "staffing", "queue"}
           /\ bstep = "add" => Asked = Sources
  <1>1. at \in Nat
    BY TargetNumbers
  <1> QED
    BY <1>1 DEF Asked, Reached, Sources

\* synthesizeOne: a reading adds its own source to those asked.
LEMMA AsksOne ==
    ASSUME IInv, NEW s \in Sources, Asks(s)
    PROVE  Asked' = Asked \cup {s} /\ s \notin Asked /\ (s = "stuck" => "queue" \in Asked)
  <1>1. /\ bstep = s /\ bstep' = After[s] /\ at' = at /\ at \in TargetIds
    BY DEF Asks, IInv, Control, AtTarget, Sources
  <1>2. at \in Nat
    BY <1>1, TargetNumbers
  <1>3. ASSUME NEW x \in Sources
        PROVE  (x \in Asked' <=> x \in Asked \/ x = s)
    BY <1>1, <1>2, <1>3 DEF Asked, Reached, Sources, After
  <1>4. s \notin Asked /\ (s = "stuck" => "queue" \in Asked)
    BY <1>1, <1>2 DEF Asked, Reached, Sources
  <1>5. Asked \subseteq Sources /\ Asked' \subseteq Sources
    BY DEF Asked
  <1> QED
    BY <1>3, <1>4, <1>5

\* synthesizeOne: after a reading the facts held still fire exactly when the
\* answers alarm, and the missing sources are still each listed once.
LEMMA ReadingTrue == ASSUME IInv, FInv, NEW s \in Sources, TrueReading(s) PROVE FInv'
  <1>0. Asks(s) /\ Reading(s)
    BY DEF TrueReading, Reading
  <1>1. /\ at \in TargetIds /\ at' = at /\ bstep = s /\ bstep' = After[s]
        /\ bstep' \in AtTarget /\ paths' = paths /\ wired' = wired
        /\ \A n \in TargetIds : n # at => heard'[n] = heard[n]
        /\ \A x : x # s => (x \in DOMAIN heard'[at] <=> x \in DOMAIN heard[at])
        /\ DOMAIN fact' = DOMAIN heard'[at]
    <2>1. wired' = wired
      BY <1>0 DEF Asks
    <2> QED
      BY <1>0, <2>1, AsksOf DEF Reading
  <1>2. Asked' = Asked \cup {s} /\ s \notin Asked /\ (s = "stuck" => "queue" \in Asked)
    BY <1>0, AsksOne
  <1>3. /\ DOMAIN heard[at] \subseteq Asked
        /\ \A x \in Signals : Fires(x, fact) <=> Alarm(at, x)
        /\ ListsOnce(unavailable, Gone(at, Asked))
    BY <1>1 DEF FInv, AtHand
  <1>4. s \notin DOMAIN heard[at]
    BY <1>2, <1>3
  <1>5. DOMAIN heard'[at] \subseteq Asked'
    BY <1>1, <1>2, <1>3
  <1>6. \A x \in Signals : Fires(x, fact') <=> Alarm(at, x)'
    <2>1. CASE \E r, v : Answers(s, r, v) /\ Takes(s, r, v)
      BY <1>1, <2>1, AnswerSpeaks
    <2>2. CASE Fails(s) \/ NotConfigured(s)
      <3>1. fact' = fact /\ heard' = heard
        BY <2>2 DEF Fails, NotConfigured
      <3> QED
        BY <1>1, <1>3, <3>1 DEF Alarm
    <2> QED
      BY <2>1, <2>2 DEF TrueReading
  <1>7. ListsOnce(unavailable', Gone(at, Asked)')
    <2> DEFINE G == Gone(at, Asked)
               H == {x \in Asked \cup {s} : Client[x] \in wired /\ x \notin DOMAIN heard'[at]}
                        \cup ({Client[x] : x \in Asked \cup {s}} \ wired)
    <2>1. Asked \in SUBSET Sources /\ IsFiniteSet(G) /\ G \subseteq Names
      <3>1. Asked \in SUBSET Sources
        BY DEF Asked
      <3>2. PICK n \in TargetIds : n = at
        BY <1>1
      <3>3. PICK S \in SUBSET Sources : S = Asked
        BY <3>1
      <3>4. IsFiniteSet(Gone(n, S)) /\ Gone(n, S) \subseteq Names
        BY GoneFacts
      <3> QED
        BY <3>1, <3>2, <3>3, <3>4
    <2>2. Gone(at, Asked)' = H
      BY <1>1, <1>2 DEF Gone
    <2>3. \A x \in Asked : x # s /\ (x \in DOMAIN heard'[at] <=> x \in DOMAIN heard[at])
      BY <1>1, <1>2
    <2>4. \A x \in Sources : Client[x] \notin Sources
      BY DEF Client, Sources
    <2>5. CASE \E r, v : Answers(s, r, v) /\ Takes(s, r, v)
      <3>1. Client[s] \in wired /\ unavailable' = unavailable /\ s \in DOMAIN fact'
        BY <2>5 DEF Answers
      <3>2. H = G
        BY <1>1, <2>3, <3>1 DEF Gone
      <3> QED
        BY <1>3, <2>2, <3>1, <3>2 DEF ListsOnce
    <2>6. CASE Fails(s)
      <3>1. /\ Client[s] \in wired /\ unavailable' = Append(unavailable, s)
            /\ heard' = heard
        BY <2>6 DEF Fails
      <3>2. H = G \cup {s}
        BY <1>4, <2>3, <3>1 DEF Gone
      <3>3. s \notin G /\ s \in Names
        BY <1>2, <2>1, <2>4 DEF Gone, Names
      <3> HIDE DEF G, H
      <3>4. ListsOnce(Append(unavailable, s), G \cup {s})
        BY <1>3, <2>1, <3>3, ListsOneMore DEF G
      <3> QED
        BY <2>2, <3>1, <3>2, <3>4 DEF ListsOnce
    <2>7. CASE NotConfigured(s)
      <3>1. /\ Client[s] \notin wired /\ heard' = heard
            /\ unavailable' = IF s = "stuck" THEN unavailable ELSE Append(unavailable, Client[s])
        BY <2>7 DEF NotConfigured
      <3>2. H = G \cup {Client[s]}
        BY <2>3, <3>1 DEF Gone
      <3>3. CASE s = "stuck"
        <4>1. Client[s] = Client["queue"] /\ "queue" \in Asked
          BY <1>2, <3>3 DEF Client
        <4>2. Client[s] \in G
          BY <3>1, <4>1 DEF Gone
        <4>3. unavailable' = unavailable
          BY <3>1, <3>3
        <4>4. ListsOnce(unavailable, G)
          BY <1>3
        <4> HIDE DEF G, H
        <4>5. H = G
          BY <3>2, <4>2
        <4> QED
          BY <2>2, <4>3, <4>4, <4>5, Zenon
      <3>4. CASE s # "stuck"
        <4>1. \A x \in Asked : Client[x] # Client[s]
          <5>1. Asked = {} \/ (s = "staffing" /\ Asked = {"backlog"})
                  \/ (s = "queue" /\ Asked = {"backlog", "staffing"})
            BY <1>1, <3>4, AskedAt DEF Sources
          <5> QED
            BY <5>1 DEF Client
        <4>2. Client[s] \notin G
          BY <2>1, <2>4, <4>1 DEF Gone
        <4>3. Client[s] \in Names
          BY DEF Client, Sources, Names
        <4> HIDE DEF G, H
        <4>4. ListsOnce(Append(unavailable, Client[s]), G \cup {Client[s]})
          BY <1>3, <2>1, <4>2, <4>3, ListsOneMore DEF G
        <4> QED
          BY <2>2, <3>1, <3>2, <3>4, <4>4 DEF ListsOnce
      <3> QED
        BY <3>3, <3>4
    <2> QED
      BY <2>5, <2>6, <2>7 DEF TrueReading
  <1>8. AtHand'
    BY <1>1, <1>5, <1>6, <1>7 DEF AtHand
  <1>9. Shown'
    <2> SUFFICES ASSUME NEW n \in TargetIds, n < at
                 PROVE  /\ paths'[n].target = n
                        /\ \A x \in Signals : Fires(x, paths'[n].fact) <=> Alarm(n, x)'
                        /\ ListsOnce(paths'[n].unavailable, Silent(n)')
      BY <1>1 DEF Shown, ListsOnce
    <2>1. heard'[n] = heard[n] /\ wired' = wired /\ paths' = paths
      BY <1>1, TargetNumbers
    <2>2. /\ paths[n].target = n
          /\ \A x \in Signals : Fires(x, paths[n].fact) <=> Alarm(n, x)
          /\ ListsOnce(paths[n].unavailable, Silent(n))
      BY DEF FInv, Shown
    <2> QED
      BY <2>1, <2>2 DEF Alarm, Silent
  <1> QED
    BY <1>8, <1>9 DEF FInv

\* Execute: a path's brief joins the others as it was held.
LEMMA AddPathTrue == ASSUME IInv, FInv, AddPath PROVE FInv'
  <1> DEFINE pb == SynthesizePathBrief(at, fact, unavailable)
  <1>1. /\ bstep = "add" /\ paths' = Append(paths, pb) /\ GoOn(at)
        /\ fact' = <<>> /\ unavailable' = <<>> /\ heard' = heard /\ wired' = wired
    BY DEF AddPath, Nothing
  <1>2. pb.target = at /\ pb.fact = fact /\ pb.unavailable = unavailable
    BY DEF SynthesizePathBrief
  <1> HIDE DEF pb
  <1>3. at \in 1..Len(Targets) /\ at \in TargetIds /\ at' = at + 1 /\ bstep' \in {"backlog", "rank"}
        /\ (at' \in TargetIds => bstep' = "backlog")
    BY <1>1, GoOnMoves, TargetNumbers DEF IInv, Control, AtTarget
  <1>4. /\ paths'[at] = pb /\ \A n \in 1..(at - 1) : paths'[n] = paths[n]
    <2>1. Len(paths) = at - 1 /\ (\E S : paths \in Seq(S))
      BY <1>3, TargetNumbers DEF IInv, Kept
    <2>2. /\ Append(paths, pb)[Len(paths) + 1] = pb
          /\ \A n \in 1..Len(paths) : Append(paths, pb)[n] = paths[n]
      BY <2>1, AppendOne
    <2>3. Len(paths) + 1 = at
      BY <1>3, <2>1, TargetNumbers
    <2> QED
      BY <1>1, <2>1, <2>2, <2>3
  <1>5. AtHand'
    <2>1. CASE at' \in TargetIds
      <3>1. Asked' = {}
        <4>1. at' \in Nat /\ bstep' = "backlog"
          BY <1>3, <2>1, TargetNumbers
        <4> QED
          BY <4>1 DEF Asked, Reached, Sources
      <3>2. DOMAIN heard'[at'] = {}
        <4>1. at' > at
          BY <1>3, TargetNumbers
        <4> QED
          BY <1>1, <2>1, <4>1 DEF IInv, Kept
      <3>3. \A s \in Signals : ~Fires(s, fact') /\ ~Alarm(at, s)'
        BY <1>1, <3>2 DEF Fires, Alarm
      <3>4. Gone(at, Asked)' = {}
        BY <3>1 DEF Gone
      <3>5. ListsOnce(<<>>, {})
        <4>1. <<>> \in Seq(Names) /\ ToSet(<<>>) = {} /\ Len(<<>>) = 0 /\ Cardinality({}) = 0
          BY FS_EmptySet DEF ToSet
        <4> QED
          BY <4>1 DEF ListsOnce
      <3>6. ListsOnce(unavailable', Gone(at, Asked)')
        BY <1>1, <3>4, <3>5, Zenon
      <3>7. DOMAIN heard'[at'] \subseteq Asked'
        BY <3>1, <3>2
      <3> QED
        BY <2>1, <3>3, <3>6, <3>7 DEF AtHand
    <2>2. CASE at' \notin TargetIds
      BY <1>1, <2>2 DEF AtHand
    <2> QED
      BY <2>1, <2>2
  <1>6. Shown'
    <2> SUFFICES ASSUME NEW n \in TargetIds, n < at + 1
                 PROVE  /\ paths'[n].target = n
                        /\ \A x \in Signals : Fires(x, paths'[n].fact) <=> Alarm(n, x)'
                        /\ ListsOnce(paths'[n].unavailable, Silent(n)')
      BY <1>3 DEF Shown, ListsOnce
    <2>1. /\ \A x \in Signals : Alarm(n, x)' <=> Alarm(n, x)
          /\ Silent(n)' = Silent(n)
      BY <1>1 DEF Alarm, Silent
    <2>2. CASE n = at
      <3>1. /\ \A x \in Signals : Fires(x, fact) <=> Alarm(at, x)
            /\ ListsOnce(unavailable, Gone(at, Asked))
        BY <1>3 DEF FInv, AtHand
      <3>2. Asked = Sources
        BY <1>1, <1>3, AskedAt
      <3>3. {Client[s] : s \in Sources} = {"wes", "wfm", "fe"}
        BY DEF Client, Sources
      <3>4. Gone(at, Asked) = Silent(at)
        BY <3>2, <3>3 DEF Gone, Silent
      <3>5. paths'[n] = pb
        BY <1>4, <2>2
      <3> QED
        BY <1>2, <2>1, <2>2, <3>1, <3>4, <3>5
    <2>3. CASE n < at
      <3>1. n \in 1..(at - 1)
        BY <1>3, <2>3, TargetNumbers
      <3>2. /\ paths[n].target = n
            /\ \A x \in Signals : Fires(x, paths[n].fact) <=> Alarm(n, x)
            /\ ListsOnce(paths[n].unavailable, Silent(n))
        BY <2>3 DEF FInv, Shown
      <3>3. paths'[n] = paths[n]
        BY <1>4, <3>1
      <3> QED
        BY <2>1, <3>2, <3>3
    <2> QED
      BY <1>3, <2>2, <2>3, TargetNumbers
  <1> QED
    BY <1>5, <1>6 DEF FInv

\* Execute, listSites and the ranking hold nothing of a target.
LEMMA RestTrue ==
    ASSUME IInv, FInv, ExecuteBrief \/ ListSites \/ Rank \/ UNCHANGED briefVars
    PROVE  FInv'
  <1>1. CASE ListSites
    <2>1. /\ at = 0 /\ at' = 1 /\ bstep' \in {"backlog", "rank"}
          /\ bstep' = "rank" => Len(Targets) = 0
      <3>1. bstep = "list_sites" /\ at = 0 /\ GoOn(0)
        BY <1>1 DEF ListSites, IInv, Control
      <3> QED
        BY <3>1, GoOnMoves, TargetNumbers
    <2>2. /\ fact' = fact /\ unavailable' = unavailable /\ heard' = heard /\ paths' = paths
          /\ wired' = wired
      BY <1>1 DEF ListSites, pathVars
    <2>3. at \notin TargetIds /\ fact = <<>> /\ unavailable = <<>>
      BY <2>1, TargetNumbers DEF FInv, AtHand
    <2>4. \A n \in TargetIds : ~(n < at')
      BY <2>1, TargetNumbers
    <2>5. ASSUME at' \in TargetIds
          PROVE  /\ DOMAIN heard'[at'] \subseteq Asked'
                 /\ \A s \in Signals : Fires(s, fact') <=> Alarm(at, s)'
                 /\ ListsOnce(unavailable', Gone(at, Asked)')
      <3>1. bstep' = "backlog"
        BY <2>1, <2>5, TargetNumbers
      <3>2. Asked' = {}
        BY <2>1, <3>1 DEF Asked, Reached, Sources
      <3>3. DOMAIN heard'[at'] = {}
        <4>1. at' > at
          BY <2>1
        <4> QED
          BY <2>2, <2>5, <4>1 DEF IInv, Kept
      <3>4. \A s \in Signals : ~Fires(s, fact') /\ ~Alarm(at, s)'
        BY <2>2, <2>3, <3>3 DEF Fires, Alarm
      <3>5. Gone(at, Asked)' = {}
        BY <3>2 DEF Gone
      <3>6. ListsOnce(<<>>, {})
        <4>1. <<>> \in Seq(Names) /\ ToSet(<<>>) = {} /\ Len(<<>>) = 0 /\ Cardinality({}) = 0
          BY FS_EmptySet DEF ToSet
        <4> QED
          BY <4>1 DEF ListsOnce
      <3>7. unavailable' = <<>>
        BY <2>2, <2>3
      <3>8. ListsOnce(unavailable', Gone(at, Asked)')
        BY <3>5, <3>6, <3>7, Zenon
      <3> QED
        BY <3>2, <3>3, <3>4, <3>8
    <2>6. AtHand'
      BY <2>2, <2>3, <2>5 DEF AtHand
    <2>7. Shown'
      BY <2>4 DEF Shown
    <2> QED
      BY <2>6, <2>7 DEF FInv
  <1>2. CASE ExecuteBrief \/ Rank \/ UNCHANGED briefVars
    <2>1. /\ at' = at /\ fact' = fact /\ unavailable' = unavailable /\ heard' = heard
          /\ paths' = paths /\ wired' = wired
      BY <1>2 DEF ExecuteBrief, Rank, briefVars, pathVars
    <2>2. Shown'
      <3>1. \A n : Silent(n)' = Silent(n) /\ \A x : Alarm(n, x)' <=> Alarm(n, x)
        BY <2>1 DEF Silent, Alarm
      <3> QED
        BY <2>1, <3>1 DEF FInv, Shown
    <2>3. AtHand'
      <3>1. CASE at \in TargetIds
        <4>1. UNCHANGED briefVars
          BY <1>2, <3>1, TargetNumbers DEF ExecuteBrief, Rank, IInv, Control
        <4>2. Asked' = Asked /\ Gone(at, Asked)' = Gone(at, Asked)
              /\ \A x : Alarm(at, x)' <=> Alarm(at, x)
          BY <4>1 DEF briefVars, Asked, Reached, Gone, Alarm
        <4> QED
          BY <2>1, <3>1, <4>2 DEF FInv, AtHand
      <3>2. CASE at \notin TargetIds
        BY <2>1, <3>2 DEF FInv, AtHand
      <3> QED
        BY <3>1, <3>2
    <2> QED
      BY <2>2, <2>3 DEF FInv
  <1> QED
    BY <1>1, <1>2

-----------------------------------------------------------------------------
(* The sites of the brief: each has the targets met so far that name it,   *)
(* in their order, and the sites stand in the order of their first target. *)

Met == IF at = 0 THEN 0 ELSE at - 1
SiteBriefs == [code : STRING, named : BOOLEAN, members : Seq(Nat)]

\* The first m targets that name the site.
Members(code, m) == Only([n \in 1..m |-> n], {n \in TargetIds : Targets[n].site = code})

\* The list groups the first m targets.
Groups(list, m) ==
    /\ list \in Seq(SiteBriefs)
    /\ \A k \in DOMAIN list :
           /\ list[k].members = Members(list[k].code, m)
           /\ list[k].members # <<>> /\ list[k].members[1] <= m
    /\ \A k \in DOMAIN list : \A j \in 1..(k - 1) : list[j].members[1] < list[k].members[1]
    /\ \A c : (\E k \in DOMAIN list : list[k].code = c) <=> \E n \in 1..m : Targets[n].site = c

Grouped == named \in BOOLEAN /\ Groups(sites, Met)

\* One target more is a member when it names the site.
LEMMA OneMoreMember ==
    ASSUME NEW code, NEW m \in Nat, m + 1 \in TargetIds
    PROVE  /\ Members(code, m) \in Seq(Nat)
           /\ Targets[m + 1].site = code => Members(code, m + 1) = Append(Members(code, m), m + 1)
           /\ Targets[m + 1].site # code => Members(code, m + 1) = Members(code, m)
           /\ (\A n \in 1..m : Targets[n].site # code) => Members(code, m) = <<>>
  <1> DEFINE W == {n \in TargetIds : Targets[n].site = code}
  <1>1. PICK c \in Seq(Nat) : c = [n \in 1..m |-> n] /\ Len(c) = m
    <2>1. [n \in 1..m |-> n] \in Seq(Nat) /\ Len([n \in 1..m |-> n]) = m
      OBVIOUS
    <2> QED
      BY <2>1
  <1>2. [n \in 1..(m + 1) |-> n] = Append(c, m + 1)
    <2>1. PICK d \in Seq(Nat) : d = [n \in 1..(m + 1) |-> n] /\ Len(d) = m + 1
      <3>1. [n \in 1..(m + 1) |-> n] \in Seq(Nat) /\ Len([n \in 1..(m + 1) |-> n]) = m + 1
        OBVIOUS
      <3> QED
        BY <3>1
    <2>2. /\ Append(c, m + 1) \in Seq(Nat) /\ Len(Append(c, m + 1)) = m + 1
          /\ Append(c, m + 1)[m + 1] = m + 1 /\ \A k \in 1..m : Append(c, m + 1)[k] = c[k]
      BY <1>1
    <2>3. ASSUME NEW k \in 1..(m + 1) PROVE d[k] = Append(c, m + 1)[k]
      <3>1. k \in 1..m \/ k = m + 1
        OBVIOUS
      <3>2. d[k] = k /\ (k \in 1..m => c[k] = k)
        BY <1>1, <2>1
      <3> QED
        BY <2>2, <3>1, <3>2, Zenon
    <2>4. PICK u \in Seq(Nat) : u = Append(c, m + 1)
      BY <2>2, Zenon
    <2>5. d = u
      BY <2>1, <2>2, <2>3, <2>4, SameList
    <2> QED
      BY <2>1, <2>4, <2>5
  <1>3. Members(code, m) = Only(c, W) /\ Members(code, m + 1) = Only(Append(c, m + 1), W)
    BY <1>1, <1>2 DEF Members
  <1>4. m + 1 \in W <=> Targets[m + 1].site = code
    OBVIOUS
  <1>5. ToSet(c) = 1..m
    <2>1. DOMAIN c = 1..m /\ \A k \in 1..m : c[k] = k
      BY <1>1
    <2> QED
      BY <2>1 DEF ToSet
  <1>6. (\A n \in 1..m : Targets[n].site # code) => ToSet(c) \cap W = {}
    BY <1>5
  <1> HIDE DEF W
  <1>7. /\ Only(c, W) \in Seq(Nat)
        /\ m + 1 \in W => Only(Append(c, m + 1), W) = Append(Only(c, W), m + 1)
        /\ m + 1 \notin W => Only(Append(c, m + 1), W) = Only(c, W)
        /\ ToSet(c) \cap W = {} => Only(c, W) = <<>>
    <2>1. PICK e \in Nat : e = m + 1
      OBVIOUS
    <2>2. /\ Only(c, W) \in Seq(Nat)
          /\ e \in W => Only(Append(c, e), W) = Append(Only(c, W), e)
          /\ e \notin W => Only(Append(c, e), W) = Only(c, W)
      BY OnlyOneMore
    <2>3. ToSet(c) \cap W = {} => Only(c, W) = <<>>
      BY OnlyAllOrNone
    <2> QED
      BY <2>1, <2>2, <2>3, Zenon
  <1> QED
    BY <1>3, <1>4, <1>6, <1>7, Zenon

SiteIndex(list, code) == SelectInSeq(list, LAMBDA s : s.code = code)

\* The site of the target is looked up by its code.
LEMMA SiteLookup ==
    ASSUME NEW T, NEW list \in Seq(T), NEW code,
           \A i, j \in 1..Len(list) : list[i].code = code /\ list[j].code = code => i = j
    PROVE  /\ SiteIndex(list, code) = 0 => \A i \in 1..Len(list) : list[i].code # code
           /\ SiteIndex(list, code) # 0 => /\ SiteIndex(list, code) \in 1..Len(list)
                                          /\ list[SiteIndex(list, code)].code = code
  <1> DEFINE I == {i \in 1..Len(list) : list[i].code = code}
  <1>1. SiteIndex(list, code) = IF I # {} THEN Min(I) ELSE 0
    BY DEF SiteIndex, SelectInSeq
  <1>2. CASE I = {}
    BY <1>1, <1>2
  <1>3. CASE I # {}
    <2>1. PICK i \in 1..Len(list) : list[i].code = code
      BY <1>3
    <2>2. I = {i}
      BY <2>1
    <2>3. Min({i}) = i
      BY DEF Min
    <2>4. SiteIndex(list, code) = i
      <3> HIDE DEF I
      <3> QED
        BY <1>1, <1>3, <2>2, <2>3
    <2>5. i # 0
      BY <2>1
    <2> QED
      BY <2>1, <2>4, <2>5, Zenon
  <1> QED
    BY <1>2, <1>3

\* Execute: a target joins the site it names, a new one at the end.
LEMMA AddPathGroups == ASSUME IInv, Grouped, AddPath PROVE Grouped'
  <1>1. at \in 1..Len(Targets) /\ at \in TargetIds /\ at' = at + 1 /\ named' = named
    BY GoOnMoves, TargetNumbers DEF AddPath, IInv, Control, AtTarget
  <1>2. PICK m \in Nat : m + 1 = at /\ m = Met /\ m + 1 = Met'
    <2>1. at - 1 \in Nat /\ (at - 1) + 1 = at /\ at # 0 /\ at' # 0 /\ at' - 1 = at
      BY <1>1, TargetNumbers
    <2> QED
      BY <2>1 DEF Met
  <1>3. PICK code \in STRING : code = Targets[at].site
    BY <1>1, TargetFields
  <1>4. PICK list \in Seq(SiteBriefs) : list = sites /\ Groups(list, m) /\ named \in BOOLEAN
    BY <1>2 DEF Grouped, Groups
  <1>5. PICK k : k = SiteIndex(list, code)
    OBVIOUS
  <1>6. sites' = IF k = 0
                 THEN Append(list, [code |-> code, named |-> named, members |-> <<at>>])
                 ELSE [list EXCEPT ![k].members = Append(@, at)]
    BY <1>3, <1>4, <1>5 DEF AddPath, SiteIndex
  <1>7. Len(list) \in Nat /\ DOMAIN list = 1..Len(list)
        /\ \A i \in 1..Len(list) : /\ list[i] \in SiteBriefs /\ list[i].code \in STRING
                                   /\ list[i].named \in BOOLEAN /\ list[i].members \in Seq(Nat)
    <2>1. \A x \in SiteBriefs : x.code \in STRING /\ x.named \in BOOLEAN /\ x.members \in Seq(Nat)
      BY DEF SiteBriefs
    <2>2. \A i \in 1..Len(list) : list[i] \in SiteBriefs
      OBVIOUS
    <2> QED
      BY <2>1, <2>2
  <1>8. /\ \A i \in 1..Len(list) :
               /\ list[i].members = Members(list[i].code, m)
               /\ list[i].members # <<>> /\ list[i].members[1] <= m
        /\ \A i \in 1..Len(list) : \A j \in 1..(i - 1) : list[j].members[1] < list[i].members[1]
        /\ \A c : (\E i \in 1..Len(list) : list[i].code = c) <=> \E n \in 1..m : Targets[n].site = c
        /\ named \in BOOLEAN
    BY <1>4, <1>7 DEF Groups
  <1>9. \A i \in 1..Len(list) : list[i].members[1] \in Nat
    <2>1. \A s \in Seq(Nat) : s # <<>> => s[1] \in Nat
      OBVIOUS
    <2> QED
      BY <1>7, <1>8, <2>1
  <1>10. \A i, j \in 1..Len(list) : list[i].code = code /\ list[j].code = code => i = j
    <2> SUFFICES ASSUME NEW i \in 1..Len(list), NEW j \in 1..Len(list),
                        list[i].code = code, list[j].code = code, i # j
                 PROVE  FALSE
      OBVIOUS
    <2>1. list[i].members[1] = list[j].members[1]
      BY <1>8
    <2>2. i \in 1..(j - 1) \/ j \in 1..(i - 1)
      BY <1>7
    <2>3. list[i].members[1] < list[j].members[1] \/ list[j].members[1] < list[i].members[1]
      BY <1>8, <2>2
    <2> QED
      BY <1>9, <2>1, <2>3
  <1>11. /\ k = 0 => \A i \in 1..Len(list) : list[i].code # code
         /\ k # 0 => k \in 1..Len(list) /\ list[k].code = code
    BY <1>5, <1>10, SiteLookup
  <1>12. \A c : /\ c = code => Members(c, m + 1) = Append(Members(c, m), m + 1)
                /\ c # code => Members(c, m + 1) = Members(c, m)
                /\ (\A n \in 1..m : Targets[n].site # c) => Members(c, m) = <<>>
    BY <1>1, <1>2, <1>3, OneMoreMember
  <1>13. \A c : (\E n \in 1..(m + 1) : Targets[n].site = c)
                    <=> c = code \/ \E n \in 1..m : Targets[n].site = c
    <2>1. 1..(m + 1) = (1..m) \cup {m + 1}
      OBVIOUS
    <2> QED
      BY <1>2, <1>3, <2>1
  <1>14. CASE k = 0
    <2> DEFINE new == [code |-> code, named |-> named, members |-> <<at>>]
    <2>1. new \in SiteBriefs /\ new.code = code /\ new.members = <<at>>
      <3>1. at \in Nat /\ <<at>> \in Seq(Nat)
        BY <1>1, TargetNumbers
      <3> QED
        BY <1>8, <3>1 DEF SiteBriefs
    <2>2. \A i \in 1..Len(list) : list[i].code # code
      BY <1>11, <1>14
    <2>3. Members(code, m + 1) = <<at>>
      <3>1. Members(code, m) = <<>>
        BY <1>8, <1>12, <2>2
      <3>2. Append(<<>>, m + 1) = <<m + 1>>
        OBVIOUS
      <3> QED
        BY <1>2, <1>12, <3>1, <3>2
    <2> HIDE DEF new
    <2>4. sites' = Append(list, new)
      BY <1>6, <1>14 DEF new
    <2>5. PICK out \in Seq(SiteBriefs) :
              /\ out = sites' /\ Len(out) = Len(list) + 1 /\ out[Len(list) + 1] = new
              /\ \A i \in 1..Len(list) : out[i] = list[i]
      <3>1. /\ Append(list, new) \in Seq(SiteBriefs) /\ Len(Append(list, new)) = Len(list) + 1
            /\ Append(list, new)[Len(list) + 1] = new
            /\ \A i \in 1..Len(list) : Append(list, new)[i] = list[i]
        BY <2>1, Appended
      <3> QED
        BY <2>4, <3>1, Zenon
    <2>6. DOMAIN out = 1..(Len(list) + 1)
      BY <2>5
    <2>7. ASSUME NEW i \in 1..(Len(list) + 1)
          PROVE  /\ out[i].members = Members(out[i].code, m + 1)
                 /\ out[i].members # <<>> /\ out[i].members[1] <= m + 1
                 /\ \A j \in 1..(i - 1) : out[j].members[1] < out[i].members[1]
      <3>1. CASE i \in 1..Len(list)
        <4>1. out[i] = list[i] /\ list[i].code # code
          BY <2>2, <2>5, <3>1
        <4>2. list[i].members[1] <= m + 1
          BY <1>8, <1>9, <3>1
        <4>3. \A j \in 1..(i - 1) : j \in 1..Len(list) /\ out[j] = list[j]
          BY <1>7, <2>5, <3>1
        <4>4. list[i].members = Members(list[i].code, m + 1) /\ list[i].members # <<>>
          BY <1>8, <1>12, <3>1, <4>1
        <4>5. \A j \in 1..(i - 1) : list[j].members[1] < list[i].members[1]
          BY <1>8, <3>1
        <4> QED
          BY <4>1, <4>2, <4>3, <4>4, <4>5
      <3>2. CASE i = Len(list) + 1
        <4>1. out[i] = new /\ new.members = <<m + 1>> /\ new.code = code
          BY <1>2, <2>1, <2>5, <3>2
        <4>2. <<m + 1>> # <<>> /\ <<m + 1>>[1] = m + 1
          OBVIOUS
        <4>3. \A j \in 1..(i - 1) : j \in 1..Len(list) /\ out[j] = list[j]
          BY <1>7, <2>5, <3>2
        <4>4. \A j \in 1..Len(list) : list[j].members[1] < m + 1
          BY <1>8, <1>9, SMTT(30)
        <4> QED
          BY <1>2, <2>3, <4>1, <4>2, <4>3, <4>4
      <3> QED
        BY <1>7, <3>1, <3>2
    <2>8. ASSUME NEW c
          PROVE  (\E i \in 1..(Len(list) + 1) : out[i].code = c)
                    <=> \E n \in 1..(m + 1) : Targets[n].site = c
      <3>1. 1..(Len(list) + 1) = (1..Len(list)) \cup {Len(list) + 1}
        BY <1>7
      <3>2. (\E i \in 1..(Len(list) + 1) : out[i].code = c)
               <=> (\E i \in 1..Len(list) : list[i].code = c) \/ c = code
        BY <2>1, <2>5, <3>1
      <3> QED
        BY <1>8, <1>13, <3>2
    <2>9. Groups(out, m + 1)
      BY <2>5, <2>6, <2>7, <2>8 DEF Groups
    <2> QED
      BY <1>1, <1>2, <1>8, <2>5, <2>9 DEF Grouped
  <1>15. CASE k # 0
    <2>1. k \in 1..Len(list) /\ list[k].code = code
      BY <1>11, <1>15
    <2> DEFINE new == [list[k] EXCEPT !.members = Append(list[k].members, at)]
    <2>2. /\ new \in SiteBriefs /\ new.code = code
          /\ new.members = Append(list[k].members, at)
      <3>1. PICK ms \in Seq(Nat) : ms = list[k].members
        BY <1>7, <2>1
      <3>2. PICK e \in Nat : e = at
        BY <1>1, TargetNumbers
      <3>3. Append(ms, e) \in Seq(Nat)
        BY Appended
      <3>4. list[k] \in SiteBriefs
        BY <1>7, <2>1
      <3> QED
        BY <2>1, <3>1, <3>2, <3>3, <3>4 DEF SiteBriefs
    <2>3. /\ new.members # <<>> /\ new.members[1] = list[k].members[1]
      <3>1. PICK ms \in Seq(Nat) : ms = list[k].members /\ ms # <<>>
        BY <1>7, <1>8, <2>1
      <3>2. Append(ms, at) # <<>> /\ Append(ms, at)[1] = ms[1]
        BY <3>1
      <3> QED
        BY <2>2, <3>1, <3>2
    <2> HIDE DEF new
    <2>4. sites' = [list EXCEPT ![k] = new]
      BY <1>6, <1>15, <2>1 DEF new
    <2>5. PICK out \in Seq(SiteBriefs) :
              /\ out = sites' /\ Len(out) = Len(list) /\ out[k] = new
              /\ \A i \in 1..Len(list) : i # k => out[i] = list[i]
      <3>1. /\ [list EXCEPT ![k] = new] \in Seq(SiteBriefs)
            /\ Len([list EXCEPT ![k] = new]) = Len(list)
            /\ [list EXCEPT ![k] = new][k] = new
            /\ \A i \in 1..Len(list) : i # k => [list EXCEPT ![k] = new][i] = list[i]
        BY <2>1, <2>2
      <3> QED
        BY <2>4, <3>1, Zenon
    <2>6. DOMAIN out = 1..Len(list)
      BY <2>5
    <2>7. \A i \in 1..Len(list) : /\ out[i].code = list[i].code
                                  /\ out[i].members[1] = list[i].members[1]
                                  /\ out[i].members # <<>>
      BY <1>8, <2>1, <2>2, <2>3, <2>5
    <2>8. ASSUME NEW i \in 1..Len(list)
          PROVE  out[i].members = Members(out[i].code, m + 1)
      <3>1. CASE i = k
        <4>1. out[i].members = Append(list[k].members, m + 1) /\ out[i].code = code
          BY <1>2, <2>2, <2>5, <3>1
        <4>2. list[k].members = Members(code, m)
          BY <1>8, <2>1
        <4> QED
          BY <1>12, <4>1, <4>2, Zenon
      <3>2. CASE i # k
        <4>1. list[i].code # code
          BY <1>10, <2>1, <3>2
        <4> QED
          BY <1>8, <1>12, <2>5, <3>2, <4>1
      <3> QED
        BY <3>1, <3>2
    <2>9. \A i \in 1..Len(list) : out[i].members[1] <= m + 1
      BY <1>8, <1>9, <2>7
    <2>10. \A i \in 1..Len(list) : \A j \in 1..(i - 1) : out[j].members[1] < out[i].members[1]
      <3>1. \A i \in 1..Len(list) : \A j \in 1..(i - 1) : j \in 1..Len(list)
        BY <1>7
      <3> QED
        BY <1>8, <2>7, <3>1
    <2>11. ASSUME NEW c
           PROVE  (\E i \in 1..Len(list) : out[i].code = c)
                    <=> \E n \in 1..(m + 1) : Targets[n].site = c
      <3>1. (\E i \in 1..Len(list) : out[i].code = c) <=> \E i \in 1..Len(list) : list[i].code = c
        BY <2>7
      <3>2. c = code => \E i \in 1..Len(list) : list[i].code = c
        BY <2>1
      <3> QED
        BY <1>8, <1>13, <3>1, <3>2
    <2>12. Groups(out, m + 1)
      BY <2>5, <2>6, <2>7, <2>8, <2>9, <2>10, <2>11, ZenonT(40) DEF Groups
    <2> QED
      BY <1>1, <1>2, <1>8, <2>5, <2>12 DEF Grouped
  <1> QED
    BY <1>14, <1>15

\* The other steps add no target.
LEMMA RestGroups == ASSUME IInv, Grouped, [BriefNext]_briefVars, ~AddPath PROVE Grouped'
  <1>1. sites' = sites /\ Met' = Met /\ named' \in BOOLEAN
    <2>1. CASE ListSites
      <3>1. at = 0 /\ at' = 1 /\ sites' = sites /\ named' \in BOOLEAN
        BY <2>1 DEF ListSites, GoOn, IInv, Control
      <3> QED
        BY <3>1 DEF Met
    <2>2. CASE ~ListSites
      <3>1. sites' = sites /\ at' = at /\ named' = named
        BY <2>2 DEF BriefNext, ExecuteBrief, GetBacklogTelemetry, GetStaffingGap,
           GetQueueStatus, DiagnoseStuckTasks, Asks, Rank, briefVars
      <3> QED
        BY <3>1 DEF Met, Grouped
    <2> QED
      BY <2>1, <2>2
  <1> QED
    BY <1>1 DEF Grouped

\* Execute: while the brief is made, what is held, shown and grouped is true.
THEOREM BriefInvariance == BriefSpec => [](IInv /\ FInv /\ Grouped)
  <1>1. BriefInit => FInv /\ Grouped
    <2> SUFFICES ASSUME BriefInit PROVE FInv /\ Grouped
      OBVIOUS
    <2>1. /\ bstep = "idle" /\ at = 0 /\ fact = <<>> /\ unavailable = <<>> /\ sites = <<>>
          /\ named = FALSE
      BY DEF BriefInit, Nothing
    <2>2. at \notin TargetIds /\ \A n \in TargetIds : ~(n < at)
      BY <2>1, TargetNumbers
    <2>3. FInv
      BY <2>1, <2>2 DEF FInv, AtHand, Shown
    <2>4. Met = 0 /\ 1..0 = {}
      BY <2>1 DEF Met
    <2>5. Groups(<<>>, 0)
      <3>1. <<>> \in Seq(SiteBriefs) /\ DOMAIN <<>> = {}
        OBVIOUS
      <3> QED
        BY <2>4, <3>1 DEF Groups
    <2> QED
      BY <2>1, <2>3, <2>4, <2>5 DEF Grouped
  <1>2. IInv /\ FInv /\ Grouped /\ [BriefNext]_briefVars => FInv' /\ Grouped'
    <2> SUFFICES ASSUME IInv, FInv, Grouped, [BriefNext]_briefVars PROVE FInv' /\ Grouped'
      OBVIOUS
    <2>1. FInv'
      BY TrueReadings, ReadingTrue, AddPathTrue, RestTrue DEF BriefNext
    <2>2. Grouped'
      BY AddPathGroups, RestGroups
    <2> QED
      BY <2>1, <2>2
  <1> QED
    BY <1>1, <1>2, Invariance, PTL DEF BriefSpec

\* Execute, synthesizeOne, countForPath: for any list of targets, any choice of
\* clients and any answers, every target is shown once, under its own site
\* and in order, with its own facts and exactly the sources it misses.
THEOREM ServedPathsAreTrue == Spec => []PathsTrue
  <1>1. IInv /\ FInv /\ Grouped => PathsTrue
    <2> SUFFICES ASSUME IInv, FInv, Grouped, bstep = "done" PROVE PathsTrue
      BY DEF PathsTrue
    <2>1. at = Len(Targets) + 1 /\ Met = Len(Targets) /\ 1..Met = TargetIds
          /\ \A n \in TargetIds : n < at
      <3>1. at = Len(Targets) + 1
        BY DEF IInv, Control
      <3> QED
        BY <3>1, TargetNumbers DEF Met
    <2>2. ASSUME NEW n \in TargetIds
          PROVE  /\ paths[n].target = n
                 /\ DOMAIN paths[n].fact = DOMAIN heard[n]
                 /\ \A s \in {"backlog", "staffing", "stuck"} :
                        Fires(s, paths[n].fact) <=> Alarm(n, s)
                 /\ ToSet(paths[n].unavailable) = Silent(n)
                 /\ Len(paths[n].unavailable) = Cardinality(Silent(n))
      BY <2>1 DEF IInv, Kept, FInv, Shown, ListsOnce, Signals
    <2>3. Groups(sites, Met)
      BY DEF Grouped
    <2>4. ASSUME NEW k \in DOMAIN sites
          PROVE  /\ sites[k].members = Only([n \in TargetIds |-> n],
                                            {n \in TargetIds : Targets[n].site = sites[k].code})
                 /\ \A j \in 1..(k - 1) : sites[j].members[1] < sites[k].members[1]
      BY <2>1, <2>3 DEF Groups, Members
    <2>5. {sites[k].code : k \in DOMAIN sites} = {Targets[n].site : n \in TargetIds}
      <3>1. \A c : (\E k \in DOMAIN sites : sites[k].code = c)
                      <=> \E n \in TargetIds : Targets[n].site = c
        BY <2>1, <2>3 DEF Groups
      <3> QED
        BY <3>1, Zenon
    <2> QED
      BY <2>2, <2>4, <2>5 DEF PathsTrue
  <1> QED
    BY <1>1, ServesBrief, BriefInvariance, PTL
-----------------------------------------------------------------------------
(* The exceptions of the brief.  Before they are ranked, ranking them      *)
(* would give the critical ones of the targets met so far and then the     *)
(* warnings, each in the order of the targets.                             *)

Exceptions == [target : Nat, evidence : Seq(Signals), severity : {"critical", "warning"}]
Criticals == {e \in Exceptions : e.severity = "critical"}
Warnings == {e \in Exceptions : e.severity = "warning"}

\* The step of the outer loop of rankBySeverity.
Inserting(list) == [p \in (1..Len(list)) \X Seq(Exceptions) |-> InsertByRank(p[2], list[p[1]])]

\* rankBySeverity: an exception is inserted somewhere in the list.
LEMMA InsertTyped ==
    ASSUME NEW out \in Seq(Exceptions), NEW e \in Exceptions
    PROVE  InsertByRank(out, e) \in Seq(Exceptions)
  <1> DEFINE stay == {i \in DOMAIN out : SeverityRank(out[i]) <= SeverityRank(e)}
             k == Cardinality(stay)
  <1>1. k \in 0..Len(out)
    <2>1. Len(out) \in Nat /\ stay \in SUBSET (1..Len(out))
      OBVIOUS
    <2>2. PICK n \in Nat : n = Len(out)
      BY <2>1
    <2> HIDE DEF stay
    <2>3. stay \in SUBSET (1..n)
      BY <2>1, <2>2
    <2>4. Cardinality(stay) \in 0..n
      BY <2>3, SomeOf
    <2> QED
      BY <2>2, <2>4
  <1>2. InsertByRank(out, e) = SubSeq(out, 1, (k + 1) - 1) \o <<e>> \o SubSeq(out, k + 1, Len(out))
    BY DEF InsertByRank, InsertAt
  <1> HIDE DEF k
  <1>3. SubSeq(out, 1, (k + 1) - 1) \in Seq(Exceptions) /\ SubSeq(out, k + 1, Len(out)) \in Seq(Exceptions)
    <2> HIDE DEF Exceptions
    <2> QED
      BY <1>1
  <1>4. <<e>> \in Seq(Exceptions)
    <2> HIDE DEF Exceptions
    <2> QED
      OBVIOUS
  <1> HIDE DEF Exceptions
  <1> QED
    BY <1>2, <1>3, <1>4

\* rankBySeverity walks the list and inserts one exception after another.
LEMMA RankWalk ==
    ASSUME NEW list \in Seq(Exceptions)
    PROVE  \E g : /\ Walk(g, Len(list), Seq(Exceptions), <<>>, Inserting(list))
                  /\ RankBySeverity(list) = g[Len(list)]
  <1> DEFINE n == Len(list)
             F == Inserting(list)
             D == Seq(Exceptions)
  <1>1. n \in Nat /\ F \in [(1..n) \X D -> D] /\ <<>> \in D
    <2>1. \A p \in (1..n) \X D : p[2] \in Seq(Exceptions) /\ list[p[1]] \in Exceptions
      OBVIOUS
    <2>2. \A p \in (1..n) \X D : InsertByRank(p[2], list[p[1]]) \in D
      BY <2>1, InsertTyped
    <2> QED
      BY <2>2 DEF Inserting
  <1>2. PICK g : Walk(g, n, D, <<>>, F)
    <2> HIDE DEF n, F, D
    <2> QED
      BY <1>1, WalkExists
  <1>3. ASSUME NEW k \in 1..n PROVE g[k] = InsertByRank(g[k - 1], list[k])
    <2>1. k - 1 \in 0..n /\ g \in [0..n -> D] /\ g[k] = F[<<k, g[k - 1]>>]
      BY <1>1, <1>2 DEF Walk
    <2>2. <<k, g[k - 1]>> \in (1..n) \X D
      BY <2>1
    <2> QED
      BY <2>1, <2>2 DEF Inserting
  <1> DEFINE Solves(f) == f = [k \in 0..n |-> IF k = 0 THEN <<>> ELSE InsertByRank(f[k - 1], list[k])]
             f1 == CHOOSE f : Solves(f)
  <1>4. Solves(g)
    <2>1. g = [k \in 0..n |-> g[k]] /\ g[0] = <<>>
      BY <1>2 DEF Walk
    <2>2. ASSUME NEW k \in 0..n PROVE g[k] = IF k = 0 THEN <<>> ELSE InsertByRank(g[k - 1], list[k])
      <3>1. k = 0 \/ k \in 1..n
        BY <1>1
      <3>2. k \in 1..n => k # 0
        OBVIOUS
      <3> HIDE DEF n
      <3> QED
        BY <1>3, <2>1, <3>1, <3>2, Zenon
    <2> HIDE DEF n
    <2> QED
      BY <2>1, <2>2
  <1>5. Solves(f1)
    <2> HIDE DEF Solves
    <2> QED
      BY <1>4
  <1>6. RankBySeverity(list) = f1[n]
    BY DEF RankBySeverity
  <1>7. \A k \in Nat : k \in 0..n => f1[k] = g[k]
    <2> DEFINE I == {k \in Nat : k \in 0..n => f1[k] = g[k]}
    <2> HIDE DEF f1
    <2>1. 0 \in I
      BY <1>1, <1>4, <1>5
    <2>2. ASSUME NEW k \in I PROVE k + 1 \in I
      <3> SUFFICES ASSUME k + 1 \in 0..n PROVE f1[k + 1] = g[k + 1]
        OBVIOUS
      <3>1. /\ f1[k + 1] = IF k + 1 = 0 THEN <<>> ELSE InsertByRank(f1[(k + 1) - 1], list[k + 1])
            /\ g[k + 1] = IF k + 1 = 0 THEN <<>> ELSE InsertByRank(g[(k + 1) - 1], list[k + 1])
        BY <1>4, <1>5
      <3>2. (k + 1) - 1 = k /\ k + 1 # 0 /\ f1[k] = g[k]
        BY <1>1
      <3> QED
        BY <3>1, <3>2, Zenon
    <2>3. I = Nat
      <3> HIDE DEF I
      <3>1. I \in SUBSET Nat
        BY DEF I
      <3> QED
        BY <2>1, <2>2, <3>1, SetInduction
    <2> QED
      BY <2>3
  <1> HIDE DEF f1
  <1>8. f1[n] = g[n]
    BY <1>1, <1>7
  <1> QED
    BY <1>2, <1>6, <1>8

\* rankBySeverity: an exception more is inserted among those ranked before.
LEMMA RankAppend ==
    ASSUME NEW list \in Seq(Exceptions), NEW e \in Exceptions
    PROVE  RankBySeverity(Append(list, e)) = InsertByRank(RankBySeverity(list), e)
  <1> HIDE DEF Exceptions
  <1> DEFINE t == Append(list, e)
             n == Len(list)
  <1>1. /\ t \in Seq(Exceptions) /\ Len(t) = n + 1 /\ n \in Nat /\ t[n + 1] = e
        /\ \A k \in 1..n : t[k] = list[k]
    OBVIOUS
  <1> HIDE DEF t
  <1>2. PICK g : Walk(g, n + 1, Seq(Exceptions), <<>>, Inserting(t)) /\ RankBySeverity(t) = g[n + 1]
    BY <1>1, RankWalk
  <1>3. PICK h : Walk(h, n, Seq(Exceptions), <<>>, Inserting(list)) /\ RankBySeverity(list) = h[n]
    BY <1>1, RankWalk
  <1>4. Agree(Inserting(t), Inserting(list), n, Seq(Exceptions))
    BY <1>1 DEF Inserting, Agree
  <1>5. g[n + 1] = Inserting(t)[<<n + 1, h[n]>>] /\ h[n] \in Seq(Exceptions)
    <2> HIDE DEF n
    <2> QED
      BY <1>1, <1>2, <1>3, <1>4, WalkOneMore
  <1>6. g[n + 1] = InsertByRank(h[n], e)
    <2>1. <<n + 1, h[n]>> \in (1..Len(t)) \X Seq(Exceptions)
      BY <1>1, <1>5
    <2> QED
      BY <1>1, <1>5, <2>1 DEF Inserting
  <1> QED
    BY <1>2, <1>3, <1>6 DEF t

\* rankBySeverity: nothing is made of nothing.
LEMMA RankNothing == RankBySeverity(<<>>) = <<>>
  <1>1. PICK l \in Seq(Exceptions) : l = <<>> /\ Len(l) = 0
    <2>1. <<>> \in Seq(Exceptions) /\ Len(<<>>) = 0
      OBVIOUS
    <2> QED
      BY <2>1, Zenon
  <1>2. PICK g : /\ Walk(g, Len(l), Seq(Exceptions), <<>>, Inserting(l))
                 /\ RankBySeverity(l) = g[Len(l)]
    BY RankWalk
  <1> QED
    BY <1>1, <1>2, Zenon DEF Walk

\* rankBySeverity: a critical exception stops behind the critical ones, a
\* warning behind everything.
LEMMA InsertRanked ==
    ASSUME NEW c \in Seq(Criticals), NEW w \in Seq(Warnings), NEW e \in Exceptions
    PROVE  /\ e \in Criticals => InsertByRank(c \o w, e) = Append(c, e) \o w
           /\ e \in Warnings => InsertByRank(c \o w, e) = c \o Append(w, e)
  <1>0. \A x \in Exceptions : /\ x \in Criticals => SeverityRank(x) = 0
                              /\ x \in Warnings => SeverityRank(x) = 1
    BY DEF Criticals, Warnings, SeverityRank
  <1>1. c \in Seq(Exceptions) /\ w \in Seq(Exceptions)
    <2>1. Criticals \subseteq Exceptions /\ Warnings \subseteq Exceptions
      BY DEF Criticals, Warnings
    <2> HIDE DEF Exceptions
    <2> QED
      BY <2>1
  <1> HIDE DEF Exceptions
  <1> DEFINE u == c \o w
  <1>2. /\ u \in Seq(Exceptions) /\ Len(u) = Len(c) + Len(w) /\ Len(c) \in Nat /\ Len(w) \in Nat
        /\ DOMAIN u = 1..Len(u)
        /\ \A k \in 1..Len(c) : u[k] = c[k]
        /\ \A k \in 1..Len(w) : u[Len(c) + k] = w[k]
    BY <1>1
  <1>3. /\ \A k \in 1..Len(c) : SeverityRank(u[k]) = 0
        /\ \A k \in 1..Len(w) : SeverityRank(u[Len(c) + k]) = 1
    <2>1. \A k \in 1..Len(c) : c[k] \in Criticals /\ c[k] \in Exceptions
      BY <1>1
    <2>2. \A k \in 1..Len(w) : w[k] \in Warnings /\ w[k] \in Exceptions
      BY <1>1
    <2> HIDE DEF u
    <2> QED
      BY <1>0, <1>2, <2>1, <2>2
  <1>4. /\ SubSeq(u, 1, Len(c)) = c /\ SubSeq(u, Len(c) + 1, Len(u)) = w
        /\ SubSeq(u, 1, Len(u)) = u /\ SubSeq(u, Len(u) + 1, Len(u)) = <<>>
    <2>1. SubSeq(u, 1, Len(c)) = c /\ SubSeq(u, Len(c) + 1, Len(u)) = w
      BY <1>1, CutJoin
    <2> HIDE DEF u
    <2>2. SubSeq(u, 1, Len(u)) = u /\ SubSeq(u, Len(u) + 1, Len(u)) = <<>>
      BY <1>2, CutJoin
    <2> QED
      BY <2>1, <2>2
  <1> DEFINE stay == {i \in DOMAIN u : SeverityRank(u[i]) <= SeverityRank(e)}
             k == Cardinality(stay)
  <1>5. InsertByRank(u, e) = SubSeq(u, 1, (k + 1) - 1) \o <<e>> \o SubSeq(u, k + 1, Len(u))
    <2> HIDE DEF u
    <2> QED
      BY DEF InsertByRank, InsertAt
  <1>6. ASSUME e \in Criticals PROVE InsertByRank(u, e) = Append(c, e) \o w
    <2> HIDE DEF u
    <2>1. stay = 1..Len(c)
      <3>1. ASSUME NEW i \in 1..Len(u) PROVE i \in stay <=> i \in 1..Len(c)
        <4>1. CASE i <= Len(c)
          BY <1>0, <1>2, <1>3, <1>6, <4>1
        <4>2. CASE i > Len(c)
          <5>1. i - Len(c) \in 1..Len(w) /\ Len(c) + (i - Len(c)) = i
            BY <1>2, <4>2
          <5>2. SeverityRank(u[i]) = 1 /\ SeverityRank(e) = 0
            BY <1>0, <1>3, <1>6, <5>1
          <5> QED
            BY <1>2, <4>2, <5>2
        <4> QED
          BY <1>2, <4>1, <4>2
      <3>2. stay \subseteq 1..Len(u) /\ 1..Len(c) \subseteq 1..Len(u)
        BY <1>2
      <3> HIDE DEF stay
      <3> QED
        BY <3>1, <3>2
    <2>2. k = Len(c)
      <3>1. Cardinality(1..Len(c)) = Len(c)
        BY <1>2, OneTo
      <3> QED
        BY <2>1, <3>1
    <2> HIDE DEF k
    <2>3. (k + 1) - 1 = Len(c) /\ k + 1 = Len(c) + 1
      BY <1>2, <2>2
    <2>4. InsertByRank(u, e) = c \o <<e>> \o w
      BY <1>4, <1>5, <2>3, Zenon
    <2>5. Append(c, e) = c \o <<e>>
      BY <1>1, Appended
    <2> QED
      BY <2>4, <2>5, Zenon
  <1>7. ASSUME e \in Warnings PROVE InsertByRank(u, e) = c \o Append(w, e)
    <2>6. Append(u, e) = u \o <<e>> /\ u \o <<e>> \in Seq(Exceptions) /\ c \o Append(w, e) = Append(u, e)
      <3>1. c \o Append(w, e) = Append(u, e)
        BY <1>1, JoinedAppend
      <3> HIDE DEF u
      <3>2. Append(u, e) = u \o <<e>> /\ Append(u, e) \in Seq(Exceptions)
        BY <1>2, Appended
      <3> QED
        BY <3>1, <3>2
    <2> HIDE DEF u
    <2>1. stay = 1..Len(u)
      <3>1. ASSUME NEW i \in 1..Len(u) PROVE i \in stay
        <4>1. CASE i <= Len(c)
          BY <1>0, <1>2, <1>3, <1>7, <4>1
        <4>2. CASE i > Len(c)
          <5>1. i - Len(c) \in 1..Len(w) /\ Len(c) + (i - Len(c)) = i
            BY <1>2, <4>2
          <5>2. SeverityRank(u[i]) = 1 /\ SeverityRank(e) = 1
            BY <1>0, <1>3, <1>7, <5>1
          <5> QED
            BY <1>2, <4>2, <5>2
        <4> QED
          BY <1>2, <4>1, <4>2
      <3>2. stay \subseteq 1..Len(u)
        BY <1>2
      <3> HIDE DEF stay
      <3> QED
        BY <3>1, <3>2
    <2>2. k = Len(u)
      <3>1. Cardinality(1..Len(u)) = Len(u)
        BY <1>2, OneTo
      <3> QED
        BY <2>1, <3>1
    <2> HIDE DEF k
    <2>3. (k + 1) - 1 = Len(u) /\ k + 1 = Len(u) + 1
      BY <1>2, <2>2
    <2>4. InsertByRank(u, e) = u \o <<e>> \o <<>>
      BY <1>4, <1>5, <2>3, Zenon
    <2>5. (u \o <<e>>) \o <<>> = u \o <<e>>
      <3>1. PICK v \in Seq(Exceptions) : v = u \o <<e>>
        BY <2>6
      <3>2. v \o <<>> = v
        OBVIOUS
      <3> QED
        BY <3>1, <3>2, Zenon
    <2> QED
      BY <2>4, <2>5, <2>6, Zenon
  <1> QED
    BY <1>6, <1>7

\* What is promised of an exception: whose it is and how severe.
GradeOf(e) == [target |-> e.target, severity |-> e.severity]
Strip(list) == [i \in DOMAIN list |-> GradeOf(list[i])]
Grades == [target : Nat, severity : {"critical", "warning"}]

\* The grade of each exception of a list, and of one more.
LEMMA StripAppend ==
    ASSUME NEW l \in Seq(Exceptions), NEW e \in Exceptions
    PROVE  /\ Strip(l) \in Seq(Grades) /\ Len(Strip(l)) = Len(l)
           /\ Strip(Append(l, e)) = Strip(l) \o <<GradeOf(e)>>
  <1>1. \A x \in Exceptions : GradeOf(x) \in Grades
    BY DEF Exceptions, GradeOf, Grades
  <1>2. ASSUME NEW x \in Seq(Exceptions)
        PROVE  /\ Strip(x) \in Seq(Grades) /\ Len(Strip(x)) = Len(x)
               /\ \A i \in 1..Len(x) : Strip(x)[i] = GradeOf(x[i])
    <2>1. \A i \in 1..Len(x) : GradeOf(x[i]) \in Grades
      BY <1>1
    <2>2. DOMAIN x = 1..Len(x) /\ Len(x) \in Nat
      OBVIOUS
    <2> QED
      BY <2>1, <2>2 DEF Strip
  <1>3. PICK a \in Seq(Exceptions) : a = Append(l, e) /\ Len(a) = Len(l) + 1 /\ a[Len(l) + 1] = e
                                     /\ \A i \in 1..Len(l) : a[i] = l[i]
    <2>1. /\ Append(l, e) \in Seq(Exceptions) /\ Len(Append(l, e)) = Len(l) + 1
          /\ Append(l, e)[Len(l) + 1] = e
          /\ \A i \in 1..Len(l) : Append(l, e)[i] = l[i]
      BY Appended
    <2> QED
      BY <2>1, Zenon
  <1>4. PICK p \in Seq(Grades), q \in Seq(Grades) :
            p = Strip(l) /\ q = Strip(a)
    BY <1>2
  <1>5. PICK g \in Grades : g = GradeOf(e)
    BY <1>1
  <1>6. /\ Len(p) = Len(l) /\ Len(q) = Len(l) + 1 /\ Len(l) \in Nat
        /\ \A i \in 1..Len(l) : p[i] = GradeOf(l[i])
        /\ \A i \in 1..(Len(l) + 1) : q[i] = GradeOf(a[i])
    <2>1. Len(p) = Len(l) /\ \A i \in 1..Len(l) : p[i] = GradeOf(l[i])
      BY <1>2, <1>4, Zenon
    <2>2. Len(q) = Len(a) /\ \A i \in 1..Len(a) : q[i] = GradeOf(a[i])
      BY <1>2, <1>4, Zenon
    <2>3. Len(l) \in Nat
      OBVIOUS
    <2> QED
      BY <1>3, <2>1, <2>2, <2>3, Zenon
  <1>7. PICK r \in Seq(Grades) : r = Append(p, g)
    <2>1. Append(p, g) \in Seq(Grades)
      BY Appended
    <2> QED
      BY <2>1, Zenon
  <1>8. /\ Len(r) = Len(l) + 1 /\ r[Len(l) + 1] = g /\ \A i \in 1..Len(l) : r[i] = p[i]
        /\ r = p \o <<g>>
    <2>1. /\ Len(Append(p, g)) = Len(p) + 1 /\ Append(p, g)[Len(p) + 1] = g
          /\ \A i \in 1..Len(p) : Append(p, g)[i] = p[i]
          /\ Append(p, g) = p \o <<g>>
      BY Appended
    <2> QED
      BY <1>6, <1>7, <2>1, Zenon
  <1>9. ASSUME NEW i \in 1..Len(q) PROVE q[i] = r[i]
    <2>1. i \in 1..Len(l) \/ i = Len(l) + 1
      BY <1>6
    <2>2. i \in 1..(Len(l) + 1)
      BY <1>6
    <2> QED
      BY <1>3, <1>5, <1>6, <1>8, <2>1, <2>2
  <1>10. q = r
    BY <1>6, <1>8, <1>9, SameList
  <1> QED
    BY <1>3, <1>4, <1>5, <1>6, <1>8, <1>10, Zenon

\* The grades of two lists joined.
LEMMA StripJoin ==
    ASSUME NEW l \in Seq(Exceptions)
    PROVE  \A m \in Seq(Exceptions) : Strip(l \o m) = Strip(l) \o Strip(m)
  <1> DEFINE P == {m \in Seq(Exceptions) : Strip(l \o m) = Strip(l) \o Strip(m)}
  <1>0. \A m \in Seq(Exceptions) : Strip(m) \in Seq(Grades)
    <2>1. ASSUME NEW m \in Seq(Exceptions) PROVE Strip(m) \in Seq(Grades)
      <3>1. \A x \in Exceptions : GradeOf(x) \in Grades
        BY DEF Exceptions, GradeOf, Grades
      <3>2. \A i \in 1..Len(m) : GradeOf(m[i]) \in Grades
        BY <3>1
      <3>3. DOMAIN m = 1..Len(m) /\ Len(m) \in Nat
        OBVIOUS
      <3> QED
        BY <3>2, <3>3 DEF Strip
    <2> QED
      BY <2>1
  <1>1. <<>> \in P
    <2>1. <<>> \in Seq(Exceptions) /\ l \o <<>> = l /\ Strip(<<>>) = <<>>
      BY DEF Strip
    <2>2. Strip(l) \o <<>> = Strip(l)
      BY <1>0
    <2> QED
      BY <2>1, <2>2
  <1>2. ASSUME NEW m \in P, NEW e \in Exceptions PROVE Append(m, e) \in P
    <2>1. m \in Seq(Exceptions) /\ Strip(l \o m) = Strip(l) \o Strip(m)
      OBVIOUS
    <2> HIDE DEF P
    <2>2. /\ Append(m, e) \in Seq(Exceptions) /\ l \o m \in Seq(Exceptions)
          /\ l \o Append(m, e) = Append(l \o m, e)
      BY <2>1, Appended, JoinedAppend
    <2>3. Strip(Append(m, e)) = Strip(m) \o <<GradeOf(e)>>
      BY <2>1, StripAppend
    <2>4. Strip(Append(l \o m, e)) = Strip(l \o m) \o <<GradeOf(e)>>
      <3>1. PICK u \in Seq(Exceptions) : u = l \o m
        BY <2>2
      <3>2. Strip(Append(u, e)) = Strip(u) \o <<GradeOf(e)>>
        BY StripAppend
      <3> QED
        BY <3>1, <3>2, Zenon
    <2>5. (Strip(l) \o Strip(m)) \o <<GradeOf(e)>> = Strip(l) \o (Strip(m) \o <<GradeOf(e)>>)
      <3>1. Strip(l) \in Seq(Grades) /\ Strip(m) \in Seq(Grades) /\ GradeOf(e) \in Grades
        BY <1>0, <2>1 DEF Exceptions, GradeOf, Grades
      <3>2. PICK a \in Seq(Grades), b \in Seq(Grades) : a = Strip(l) /\ b = Strip(m)
        BY <3>1
      <3>3. PICK g \in Grades : g = GradeOf(e)
        BY <3>1
      <3>4. /\ a \o Append(b, g) = Append(a \o b, g) /\ a \o b \in Seq(Grades)
            /\ Append(b, g) = b \o <<g>>
        BY JoinedAppend, Appended
      <3>5. Append(a \o b, g) = (a \o b) \o <<g>>
        <4>1. PICK v \in Seq(Grades) : v = a \o b
          BY <3>4
        <4>2. Append(v, g) = v \o <<g>>
          BY Appended
        <4> QED
          BY <4>1, <4>2, Zenon
      <3> QED
        BY <3>2, <3>3, <3>4, <3>5, Zenon
    <2>6. Strip(l \o Append(m, e)) = Strip(l) \o Strip(Append(m, e))
      BY <2>1, <2>2, <2>3, <2>4, <2>5, Zenon
    <2> QED
      BY <2>2, <2>6 DEF P
  <1>3. P = Seq(Exceptions)
    <2> HIDE DEF P
    <2>1. P \in SUBSET Seq(Exceptions)
      BY DEF P
    <2> QED
      BY <1>1, <1>2, <2>1, ListInduction
  <1> QED
    BY <1>3

\* How many contexts alarm for a target.
LEMMA AlarmCount ==
    ASSUME NEW n \in TargetIds
    PROVE  \E k \in 0..3 :
               /\ Cardinality(Alarms(n)) = k
               /\ k = (IF Alarm(n, "backlog") THEN 1 ELSE 0) + (IF Alarm(n, "staffing") THEN 1 ELSE 0)
                          + (IF Alarm(n, "stuck") THEN 1 ELSE 0)
  <1> DEFINE A == IF Alarm(n, "backlog") THEN {"backlog"} ELSE {}
             B == IF Alarm(n, "staffing") THEN {"staffing"} ELSE {}
             C == IF Alarm(n, "stuck") THEN {"stuck"} ELSE {}
             a == IF Alarm(n, "backlog") THEN 1 ELSE 0
             b == IF Alarm(n, "staffing") THEN 1 ELSE 0
             c == IF Alarm(n, "stuck") THEN 1 ELSE 0
  <1>1. Alarms(n) = (A \cup B) \cup C
    BY DEF Alarms
  <1>2. A \cap B = {} /\ (A \cup B) \cap C = {}
    OBVIOUS
  <1>3. /\ IsFiniteSet(A) /\ Cardinality(A) = a
        /\ IsFiniteSet(B) /\ Cardinality(B) = b
        /\ IsFiniteSet(C) /\ Cardinality(C) = c
    BY FS_EmptySet, FS_Singleton
  <1>4. a \in 0..1 /\ b \in 0..1 /\ c \in 0..1
    OBVIOUS
  <1>5. Cardinality({}) = 0
    BY FS_EmptySet
  <1> HIDE DEF A, B, C, a, b, c
  <1>6. IsFiniteSet(A \cup B) /\ Cardinality(A \cup B) = a + b - 0
    BY <1>2, <1>3, <1>5, FS_Union
  <1>7. Cardinality((A \cup B) \cup C) = (a + b - 0) + c - 0
    BY <1>2, <1>3, <1>5, <1>6, FS_Union
  <1>8. Cardinality(Alarms(n)) = a + b + c /\ a + b + c \in 0..3
    BY <1>1, <1>4, <1>7
  <1> QED
    BY <1>8 DEF a, b, c

\* deriveExceptions: a signal that fires is one piece of evidence.
LEMMA EvidenceOf ==
    ASSUME NEW s \in Signals, NEW f
    PROVE  /\ Evidence(s, f) \in Seq(Signals)
           /\ Fires(s, f) => Len(Evidence(s, f)) = 1
           /\ ~Fires(s, f) => Len(Evidence(s, f)) = 0
  <1>1. <<s>> \in Seq(Signals) /\ <<>> \in Seq(Signals) /\ Len(<<s>>) = 1 /\ Len(<<>>) = 0
    BY OneOrNone, Zenon
  <1> QED
    BY <1>1, Zenon DEF Evidence

\* deriveExceptions: a path is an exception when two or three contexts alarm.
LEMMA ExceptionOf ==
    ASSUME NEW n \in TargetIds, NEW f, \A s \in Signals : Fires(s, f) <=> Alarm(n, s)
    PROVE  \/ /\ Cardinality(Alarms(n)) \notin {2, 3} /\ DeriveExceptions(n, f) = <<>>
           \/ \E e \in Exceptions :
                  /\ DeriveExceptions(n, f) = <<e>> /\ e.target = n
                  /\ \/ e.severity = "critical" /\ Cardinality(Alarms(n)) = 3
                     \/ e.severity = "warning" /\ Cardinality(Alarms(n)) = 2
  <1> DEFINE a == Evidence("backlog", f)
             b == Evidence("staffing", f)
             c == Evidence("stuck", f)
             ev == a \o b \o c
             k == Cardinality(Alarms(n))
             e == [target |-> n, evidence |-> ev,
                   severity |-> IF Len(ev) >= 3 THEN "critical" ELSE "warning"]
  <1>1. /\ Fires("backlog", f) <=> Alarm(n, "backlog")
        /\ Fires("staffing", f) <=> Alarm(n, "staffing")
        /\ Fires("stuck", f) <=> Alarm(n, "stuck")
    BY DEF Signals
  <1>2. /\ a \in Seq(Signals) /\ Len(a) = (IF Alarm(n, "backlog") THEN 1 ELSE 0)
        /\ b \in Seq(Signals) /\ Len(b) = (IF Alarm(n, "staffing") THEN 1 ELSE 0)
        /\ c \in Seq(Signals) /\ Len(c) = (IF Alarm(n, "stuck") THEN 1 ELSE 0)
    <2>1. /\ a \in Seq(Signals) /\ b \in Seq(Signals) /\ c \in Seq(Signals)
          /\ Fires("backlog", f) => Len(a) = 1
          /\ ~Fires("backlog", f) => Len(a) = 0
          /\ Fires("staffing", f) => Len(b) = 1
          /\ ~Fires("staffing", f) => Len(b) = 0
          /\ Fires("stuck", f) => Len(c) = 1
          /\ ~Fires("stuck", f) => Len(c) = 0
      <3>1. "backlog" \in Signals /\ "staffing" \in Signals /\ "stuck" \in Signals
        BY DEF Signals
      <3> QED
        BY <3>1, EvidenceOf, Zenon
    <2> HIDE DEF a, b, c
    <2> QED
      BY <1>1, <2>1, Zenon
  <1>3. DeriveExceptions(n, f) = IF Len(ev) < 2 THEN <<>> ELSE <<e>>
    BY DEF DeriveExceptions
  <1> HIDE DEF a, b, c
  <1>4. ev \in Seq(Signals) /\ Len(ev) = Len(a) + Len(b) + Len(c)
    <2>1. PICK x \in Seq(Signals), y \in Seq(Signals), z \in Seq(Signals) : x = a /\ y = b /\ z = c
      BY <1>2
    <2>2. PICK v \in Seq(Signals) : v = x \o y /\ Len(v) = Len(x) + Len(y)
      <3>1. x \o y \in Seq(Signals) /\ Len(x \o y) = Len(x) + Len(y)
        OBVIOUS
      <3> QED
        BY <3>1, Zenon
    <2>3. v \o z \in Seq(Signals) /\ Len(v \o z) = Len(v) + Len(z)
      OBVIOUS
    <2> QED
      BY <2>1, <2>2, <2>3, Zenon
  <1> HIDE DEF ev
  <1>5. k \in 0..3 /\ Len(ev) = k
    <2>1. \E x \in 0..3 : k = x /\ x = Len(a) + Len(b) + Len(c)
      BY <1>2, AlarmCount
    <2> HIDE DEF k
    <2> QED
      BY <1>4, <2>1
  <1>6. n \in Nat
    BY TargetNumbers
  <1> HIDE DEF k
  <1>7. CASE Len(ev) < 2
    BY <1>3, <1>5, <1>7 DEF k
  <1>8. CASE ~(Len(ev) < 2)
    <2>1. e \in Exceptions /\ e.target = n
      BY <1>4, <1>6 DEF Exceptions
    <2>2. \/ e.severity = "critical" /\ k = 3
          \/ e.severity = "warning" /\ k = 2
      BY <1>5, <1>8
    <2>3. DeriveExceptions(n, f) = <<e>>
      BY <1>3, <1>8
    <2> HIDE DEF e
    <2> QED
      BY <2>1, <2>2, <2>3 DEF k
  <1> QED
    BY <1>7, <1>8

\* The exceptions of one grade among the first m targets.
OfGrade(m, k, severity) == FlattenSeq([n \in 1..m |-> Graded(n, k, severity)])

\* The list has the criticals of the first m targets and then their warnings.
RankedUpTo(list, m) ==
    \E c \in Seq(Criticals), w \in Seq(Warnings) :
        /\ list = c \o w
        /\ Strip(c) = OfGrade(m, 3, "critical") /\ Strip(w) = OfGrade(m, 2, "warning")

EInv ==
    /\ open \in Seq(Exceptions)
    /\ bstep # "done" => RankedUpTo(RankBySeverity(open), Met)
    /\ bstep = "done" => RankedUpTo(open, Met)

\* deriveExceptions: one target more adds its own exception to its grade.
LEMMA OneMoreGraded ==
    ASSUME NEW m \in Nat, NEW k, NEW severity \in {"critical", "warning"}
    PROVE  /\ OfGrade(m + 1, k, severity) = OfGrade(m, k, severity) \o Graded(m + 1, k, severity)
           /\ OfGrade(m, k, severity) \in Seq(Grades)
  <1>1. \A n \in 1..(m + 1) : Graded(n, k, severity) \in Seq(Grades)
    <2>1. ASSUME NEW n \in 1..(m + 1) PROVE Graded(n, k, severity) \in Seq(Grades)
      <3>1. [target |-> n, severity |-> severity] \in Grades
        BY DEF Grades
      <3>2. <<[target |-> n, severity |-> severity]>> \in Seq(Grades) /\ <<>> \in Seq(Grades)
        BY <3>1, OneOrNone, Zenon
      <3> QED
        BY <3>2, Zenon DEF Graded
    <2> QED
      BY <2>1
  <1>2. PICK f : f = [n \in 1..(m + 1) |-> Graded(n, k, severity)]
    OBVIOUS
  <1>3. \A n \in 1..(m + 1) : f[n] = Graded(n, k, severity)
    BY <1>2
  <1>4. \A n \in 1..(m + 1) : f[n] \in Seq(Grades)
    BY <1>1, <1>3
  <1>5. /\ FlattenSeq([n \in 1..(m + 1) |-> f[n]]) = FlattenSeq([n \in 1..m |-> f[n]]) \o f[m + 1]
        /\ FlattenSeq([n \in 1..m |-> f[n]]) \in Seq(Grades)
    BY <1>4, FlattenTable
  <1>6. /\ [n \in 1..(m + 1) |-> f[n]] = [n \in 1..(m + 1) |-> Graded(n, k, severity)]
        /\ [n \in 1..m |-> f[n]] = [n \in 1..m |-> Graded(n, k, severity)]
        /\ f[m + 1] = Graded(m + 1, k, severity)
    <2>1. \A n \in 1..m : n \in 1..(m + 1)
      OBVIOUS
    <2>2. m + 1 \in 1..(m + 1)
      OBVIOUS
    <2> QED
      BY <1>2, <1>3, <2>1, <2>2, Zenon
  <1> QED
    BY <1>5, <1>6, Zenon DEF OfGrade

\* deriveExceptions, rankBySeverity: a target that is no exception changes
\* nothing, one that is joins its own grade at the end.
LEMMA RankOneMore ==
    ASSUME NEW n \in TargetIds, NEW m \in Nat, n = m + 1, NEW list \in Seq(Exceptions),
           RankedUpTo(RankBySeverity(list), m),
           NEW f, \A s \in Signals : Fires(s, f) <=> Alarm(n, s)
    PROVE  /\ list \o DeriveExceptions(n, f) \in Seq(Exceptions)
           /\ RankedUpTo(RankBySeverity(list \o DeriveExceptions(n, f)), m + 1)
  <1>1. PICK c \in Seq(Criticals), w \in Seq(Warnings) :
            /\ RankBySeverity(list) = c \o w
            /\ Strip(c) = OfGrade(m, 3, "critical") /\ Strip(w) = OfGrade(m, 2, "warning")
    BY DEF RankedUpTo
  <1>2. /\ OfGrade(m + 1, 3, "critical") = OfGrade(m, 3, "critical") \o Graded(n, 3, "critical")
        /\ OfGrade(m + 1, 2, "warning") = OfGrade(m, 2, "warning") \o Graded(n, 2, "warning")
        /\ OfGrade(m, 3, "critical") \in Seq(Grades) /\ OfGrade(m, 2, "warning") \in Seq(Grades)
    BY OneMoreGraded
  <1>3. /\ OfGrade(m, 3, "critical") \o <<>> = OfGrade(m, 3, "critical")
        /\ OfGrade(m, 2, "warning") \o <<>> = OfGrade(m, 2, "warning")
    <2>1. \A x \in Seq(Grades) : x \o <<>> = x
      OBVIOUS
    <2> QED
      BY <1>2, <2>1
  <1>4. c \in Seq(Exceptions) /\ w \in Seq(Exceptions)
    <2>1. Criticals \subseteq Exceptions /\ Warnings \subseteq Exceptions
      BY DEF Criticals, Warnings
    <2> QED
      BY <2>1
  <1> DEFINE k == Cardinality(Alarms(n))
  <1>5. CASE k \notin {2, 3} /\ DeriveExceptions(n, f) = <<>>
    <2>1. Graded(n, 3, "critical") = <<>> /\ Graded(n, 2, "warning") = <<>>
      BY <1>5 DEF Graded
    <2>2. list \o <<>> = list
      OBVIOUS
    <2>3. Strip(c) = OfGrade(m + 1, 3, "critical") /\ Strip(w) = OfGrade(m + 1, 2, "warning")
      BY <1>1, <1>2, <1>3, <2>1, Zenon
    <2>4. RankedUpTo(RankBySeverity(list), m + 1)
      BY <1>1, <2>3, Zenon DEF RankedUpTo
    <2> QED
      BY <1>5, <2>2, <2>4, Zenon
  <1>6. ASSUME NEW e \in Exceptions, DeriveExceptions(n, f) = <<e>>, e.target = n,
               \/ e.severity = "critical" /\ k = 3
               \/ e.severity = "warning" /\ k = 2
        PROVE  /\ list \o DeriveExceptions(n, f) \in Seq(Exceptions)
               /\ RankedUpTo(RankBySeverity(list \o DeriveExceptions(n, f)), m + 1)
    <2>1. list \o <<e>> = Append(list, e) /\ Append(list, e) \in Seq(Exceptions)
      BY Appended
    <2>2. RankBySeverity(Append(list, e)) = InsertByRank(c \o w, e)
      BY <1>1, RankAppend
    <2>3. GradeOf(e) = [target |-> n, severity |-> e.severity]
      BY <1>6 DEF GradeOf
    <2>4. /\ Strip(Append(c, e)) = Strip(c) \o <<GradeOf(e)>>
          /\ Strip(Append(w, e)) = Strip(w) \o <<GradeOf(e)>>
      BY <1>4, StripAppend
    <2>5. CASE e.severity = "critical" /\ k = 3
      <3>1. e \in Criticals
        BY <2>5 DEF Criticals
      <3>2. Append(c, e) \in Seq(Criticals)
        BY <3>1, Appended
      <3>3. Graded(n, 3, "critical") = <<GradeOf(e)>> /\ Graded(n, 2, "warning") = <<>>
        BY <2>3, <2>5 DEF Graded
      <3>4. RankBySeverity(Append(list, e)) = Append(c, e) \o w
        BY <2>2, <3>1, InsertRanked
      <3>5. Strip(Append(c, e)) = OfGrade(m + 1, 3, "critical")
            /\ Strip(w) = OfGrade(m + 1, 2, "warning")
        BY <1>1, <1>2, <1>3, <2>4, <3>3, Zenon
      <3>6. RankedUpTo(RankBySeverity(Append(list, e)), m + 1)
        BY <3>2, <3>4, <3>5, Zenon DEF RankedUpTo
      <3> QED
        BY <1>6, <2>1, <3>6, Zenon
    <2>6. CASE e.severity = "warning" /\ k = 2
      <3>1. e \in Warnings
        BY <2>6 DEF Warnings
      <3>2. Append(w, e) \in Seq(Warnings)
        BY <3>1, Appended
      <3>3. Graded(n, 3, "critical") = <<>> /\ Graded(n, 2, "warning") = <<GradeOf(e)>>
        BY <2>3, <2>6 DEF Graded
      <3>4. RankBySeverity(Append(list, e)) = c \o Append(w, e)
        BY <2>2, <3>1, InsertRanked
      <3>5. Strip(c) = OfGrade(m + 1, 3, "critical")
            /\ Strip(Append(w, e)) = OfGrade(m + 1, 2, "warning")
        BY <1>1, <1>2, <1>3, <2>4, <3>3, Zenon
      <3>6. RankedUpTo(RankBySeverity(Append(list, e)), m + 1)
        BY <3>2, <3>4, <3>5, Zenon DEF RankedUpTo
      <3> QED
        BY <1>6, <2>1, <3>6, Zenon
    <2> QED
      BY <1>6, <2>5, <2>6
  <1> QED
    BY <1>5, <1>6, ExceptionOf

\* Execute: the exceptions of a path join the open ones.
LEMMA AddPathRanks == ASSUME IInv, FInv, EInv, AddPath PROVE EInv'
  <1>1. /\ bstep = "add" /\ at \in TargetIds /\ at \in 1..Len(Targets) /\ at' = at + 1
        /\ bstep' # "done" /\ heard' = heard
        /\ open' = open \o DeriveExceptions(at, fact)
    <2>1. bstep = "add" /\ GoOn(at) /\ heard' = heard /\ open' = open \o DeriveExceptions(at, fact)
      BY DEF AddPath, SynthesizePathBrief
    <2>2. at \in 1..Len(Targets) /\ at \in TargetIds
      BY <2>1, TargetNumbers DEF IInv, Control, AtTarget
    <2>3. at' = at + 1 /\ bstep' \in {"backlog", "rank"}
      BY <2>1, <2>2, GoOnMoves, TargetNumbers
    <2> QED
      BY <2>1, <2>2, <2>3
  <1>2. Met \in Nat /\ at = Met + 1 /\ Met' = at
    BY <1>1, TargetNumbers DEF Met
  <1>3. PICK n \in TargetIds, m \in Nat : n = at /\ m = Met
    BY <1>1, <1>2
  <1>4. PICK f, list : f = fact /\ list = open
    OBVIOUS
  <1>5. /\ list \in Seq(Exceptions) /\ RankedUpTo(RankBySeverity(list), m)
        /\ \A s \in Signals : Fires(s, f) <=> Alarm(n, s)
    BY <1>1, <1>3, <1>4 DEF EInv, FInv, AtHand
  <1>6. /\ list \o DeriveExceptions(n, f) \in Seq(Exceptions)
        /\ RankedUpTo(RankBySeverity(list \o DeriveExceptions(n, f)), m + 1)
    BY <1>2, <1>3, <1>5, RankOneMore
  <1>7. \A i : OfGrade(i, 3, "critical")' = OfGrade(i, 3, "critical")
               /\ OfGrade(i, 2, "warning")' = OfGrade(i, 2, "warning")
    BY <1>1 DEF OfGrade, Graded, Alarms, Alarm
  <1>8. open' = list \o DeriveExceptions(n, f) /\ Met' = m + 1
    BY <1>1, <1>2, <1>3, <1>4
  <1>9. RankedUpTo(RankBySeverity(open), Met)'
    BY <1>6, <1>7, <1>8 DEF RankedUpTo
  <1> QED
    BY <1>1, <1>6, <1>8, <1>9 DEF EInv

\* rankBySeverity runs once; the other steps open and close no exception.
LEMMA RestRanks == ASSUME IInv, EInv, [BriefNext]_briefVars, ~AddPath PROVE EInv'
  <1>1. Met' = Met /\ \A n \in 1..Met : n \in TargetIds /\ heard'[n] = heard[n]
    <2>1. CASE ListSites
      <3>1. at = 0 /\ at' = 1 /\ heard' = heard
        BY <2>1 DEF ListSites, GoOn, IInv, Control
      <3> QED
        BY <3>1 DEF Met
    <2>2. CASE \E s \in Sources : Reading(s)
      <3>1. PICK s \in Sources : Reading(s)
        BY <2>2
      <3>2. at \in TargetIds /\ at' = at /\ \A n \in TargetIds : n # at => heard'[n] = heard[n]
        BY <3>1, AsksOf DEF Reading
      <3>3. Met' = Met /\ Met = at - 1 /\ at \in 1..Len(Targets) /\ TargetIds = 1..Len(Targets)
            /\ Len(Targets) \in Nat
        BY <3>2, TargetNumbers DEF Met
      <3>4. ASSUME NEW n \in 1..Met PROVE n \in TargetIds /\ n # at
        BY <3>3
      <3> QED
        BY <3>2, <3>3, <3>4
    <2>3. CASE ExecuteBrief \/ Rank \/ UNCHANGED briefVars
      <3>1. at' = at /\ heard' = heard
        BY <2>3 DEF ExecuteBrief, Rank, briefVars
      <3>2. \A n \in 1..Met : n \in TargetIds
        <4>1. at = 0 \/ at \in TargetIds \/ at = Len(Targets) + 1
          BY DEF IInv, Control
        <4> QED
          BY <4>1, TargetNumbers DEF Met
      <3> QED
        BY <3>1, <3>2 DEF Met
    <2> QED
      BY <2>1, <2>2, <2>3, Readings DEF BriefNext
  <1>2. /\ OfGrade(Met, 3, "critical")' = OfGrade(Met, 3, "critical")
        /\ OfGrade(Met, 2, "warning")' = OfGrade(Met, 2, "warning")
    <2>1. \A n \in 1..Met : \A k, v : Graded(n, k, v)' = Graded(n, k, v)
      <3>1. \A n \in 1..Met : \A s : Alarm(n, s)' <=> Alarm(n, s)
        BY <1>1 DEF Alarm
      <3>2. \A n \in 1..Met : Alarms(n)' = Alarms(n)
        BY <3>1 DEF Alarms
      <3> QED
        BY <3>2 DEF Graded
    <2>2. PICK m : m = Met /\ m = Met'
      BY <1>1
    <2>3. /\ [n \in 1..m |-> Graded(n, 3, "critical")]' = [n \in 1..m |-> Graded(n, 3, "critical")]
          /\ [n \in 1..m |-> Graded(n, 2, "warning")]' = [n \in 1..m |-> Graded(n, 2, "warning")]
      BY <2>1, <2>2
    <2>4. /\ OfGrade(m, 3, "critical")' = OfGrade(m, 3, "critical")
          /\ OfGrade(m, 2, "warning")' = OfGrade(m, 2, "warning")
      BY <2>3, Zenon DEF OfGrade
    <2>5. /\ OfGrade(Met, 3, "critical")' = OfGrade(m, 3, "critical")'
          /\ OfGrade(Met, 2, "warning")' = OfGrade(m, 2, "warning")'
      BY <2>2, Zenon DEF OfGrade
    <2> QED
      BY <2>2, <2>4, <2>5, Zenon
  <1>3. \A l : RankedUpTo(l, Met) => RankedUpTo(l, Met)'
    BY <1>2 DEF RankedUpTo
  <1>4. CASE Rank
    <2>1. bstep = "rank" /\ bstep' = "done" /\ open' = RankBySeverity(open)
      BY <1>4 DEF Rank
    <2>2. RankedUpTo(open', Met)
      BY <2>1 DEF EInv
    <2>3. open' \in Seq(Exceptions)
      <3>1. PICK c \in Seq(Criticals), w \in Seq(Warnings) : open' = c \o w
        BY <2>2 DEF RankedUpTo
      <3>2. Criticals \subseteq Exceptions /\ Warnings \subseteq Exceptions
        BY DEF Criticals, Warnings
      <3>3. c \in Seq(Exceptions) /\ w \in Seq(Exceptions)
        BY <3>2
      <3>4. c \o w \in Seq(Exceptions)
        BY <3>3
      <3> QED
        BY <3>1, <3>4
    <2>4. RankedUpTo(open, Met)'
      BY <1>2, <2>2 DEF RankedUpTo
    <2> QED
      BY <2>1, <2>3, <2>4 DEF EInv
  <1>5. CASE ~Rank
    <2>1. open' = open /\ (bstep' = "done" <=> bstep = "done")
      BY <1>5 DEF BriefNext, ExecuteBrief, ListSites, GoOn, GetBacklogTelemetry, GetStaffingGap,
         GetQueueStatus, DiagnoseStuckTasks, Asks, After, briefVars
    <2>2. /\ RankedUpTo(open, Met) => RankedUpTo(open, Met)'
          /\ RankedUpTo(RankBySeverity(open), Met) => RankedUpTo(RankBySeverity(open), Met)'
      BY <1>2, <2>1 DEF RankedUpTo
    <2> QED
      BY <2>1, <2>2 DEF EInv
  <1> QED
    BY <1>4, <1>5

\* rankBySeverity, deriveExceptions: for any targets, clients and answers, the
\* open exceptions are those of the paths where two or three contexts agree,
\* the critical ones first and each grade in the order of the targets.
THEOREM RankInvariance == BriefSpec => [](IInv /\ EInv)
  <1>1. BriefInit => EInv
    <2> SUFFICES ASSUME BriefInit PROVE EInv
      OBVIOUS
    <2>1. bstep = "idle" /\ at = 0 /\ open = <<>> /\ Met = 0
      BY DEF BriefInit, Met
    <2>2. <<>> \in Seq(Exceptions) /\ <<>> \in Seq(Criticals) /\ <<>> \in Seq(Warnings)
          /\ <<>> \o <<>> = <<>> /\ <<>> \in Seq(Seq({}))
      OBVIOUS
    <2>3. Strip(<<>>) = <<>>
      BY DEF Strip
    <2>4. OfGrade(0, 3, "critical") = <<>> /\ OfGrade(0, 2, "warning") = <<>>
      <3>1. \A k, v : [n \in 1..0 |-> Graded(n, k, v)] = <<>>
        OBVIOUS
      <3>2. FlattenSeq(<<>>) = <<>>
        BY <2>2, FlattenType, Zenon
      <3> QED
        BY <3>1, <3>2 DEF OfGrade
    <2>5. RankedUpTo(RankBySeverity(<<>>), 0)
      BY <2>2, <2>3, <2>4, RankNothing, Zenon DEF RankedUpTo
    <2> QED
      BY <2>1, <2>2, <2>5 DEF EInv
  <1>2. IInv /\ FInv /\ EInv /\ [BriefNext]_briefVars => EInv'
    BY AddPathRanks, RestRanks
  <1> QED
    BY <1>1, <1>2, BriefInvariance, PTL DEF BriefSpec

\* rankBySeverity, deriveExceptions: the brief that is served lists exactly
\* the exceptions of its paths, worst first.
THEOREM ServedExceptionsAreRanked == Spec => []ExceptionsRanked
  <1>1. IInv /\ EInv => ExceptionsRanked
    <2> SUFFICES ASSUME IInv, EInv, bstep = "done" PROVE ExceptionsRanked
      BY DEF ExceptionsRanked
    <2>1. 1..Met = TargetIds
      <3>1. at = Len(Targets) + 1
        BY DEF IInv, Control
      <3> QED
        BY <3>1, TargetNumbers DEF Met
    <2>2. PICK c \in Seq(Criticals), w \in Seq(Warnings) :
              /\ open = c \o w
              /\ Strip(c) = OfGrade(Met, 3, "critical") /\ Strip(w) = OfGrade(Met, 2, "warning")
      BY DEF EInv, RankedUpTo
    <2>3. c \in Seq(Exceptions) /\ w \in Seq(Exceptions)
      <3>1. Criticals \subseteq Exceptions /\ Warnings \subseteq Exceptions
        BY DEF Criticals, Warnings
      <3> QED
        BY <3>1
    <2>4. Strip(c \o w) = Strip(c) \o Strip(w)
      BY <2>3, StripJoin
    <2>5. Strip(open) = OfGrade(Met, 3, "critical") \o OfGrade(Met, 2, "warning")
      BY <2>2, <2>4
    <2>6. Strip(open) = [i \in DOMAIN open |->
                            [target |-> open[i].target, severity |-> open[i].severity]]
      BY DEF Strip, GradeOf
    <2> QED
      BY <2>1, <2>5, <2>6 DEF ExceptionsRanked, OfGrade
  <1> QED
    BY <1>1, ServesBrief, RankInvariance, PTL

-----------------------------------------------------------------------------
(* What the adapters answer.  A reply is final, so it is enough that each  *)
(* is true when it is given; a refused severity never starts the brief.    *)

Asking == req \in Requests /\ (Refused => bstep = "idle")

\* The exceptions of a list from the asked severity up.
Severe(list, severity) == {e \in ToSet(list) : AtLeastSevere(e, severity)}

Named == {"info", "warning", "critical"}
Accepted == {""} \cup Named

\* listOpenExceptions: which severities an asked one lets through.
LEMMA SevereEnough ==
    ASSUME NEW severity \in Accepted
    PROVE  /\ \A e \in Criticals : AtLeastSevere(e, severity)
           /\ \A e \in Warnings : AtLeastSevere(e, severity) <=> severity # "critical"
  <1>1. severity = "" \/ severity \in Named
    BY Zenon DEF Accepted
  <1>2. CASE severity = ""
    <2>1. "" # "critical"
      BY Zenon
    <2> QED
      BY <1>2, <2>1, Zenon DEF AtLeastSevere
  <1>3. CASE severity \in Named
    <2>1. "" \notin Named
      BY Zenon DEF Named
    <2>2. \A e : AtLeastSevere(e, severity) <=> Severities[e.severity] <= Severities[severity]
      BY <1>3, <2>1, Zenon DEF AtLeastSevere
    <2>3. Severities["critical"] = 0 /\ Severities["warning"] = 1 /\ Severities["info"] = 2
      BY DEF Severities
    <2>4. /\ \A e \in Criticals : e.severity = "critical"
          /\ \A e \in Warnings : e.severity = "warning"
      BY DEF Criticals, Warnings
    <2>5. /\ 0 <= Severities[severity]
          /\ 1 <= Severities[severity] <=> severity # "critical"
      BY <1>3, <2>3 DEF Named
    <2>6. /\ \A e \in Criticals : Severities[e.severity] <= Severities[severity]
          /\ \A e \in Warnings : Severities[e.severity] <= Severities[severity] <=> severity # "critical"
      BY <2>3, <2>4, <2>5
    <2> QED
      BY <2>2, <2>6, Zenon
  <1> QED
    BY <1>1, <1>2, <1>3

\* listOpenExceptions: what is kept of a ranked list.
LEMMA KeepsSevere ==
    ASSUME NEW c \in Seq(Criticals), NEW w \in Seq(Warnings),
           NEW severity \in Accepted
    PROVE  /\ severity = "critical" => Only(c \o w, Severe(c \o w, severity)) = c
           /\ severity # "critical" => Only(c \o w, Severe(c \o w, severity)) = c \o w
  <1>1. c \in Seq(Exceptions) /\ w \in Seq(Exceptions)
    <2>1. Criticals \subseteq Exceptions /\ Warnings \subseteq Exceptions
      BY DEF Criticals, Warnings
    <2> QED
      BY <2>1
  <1>2. c \o w \in Seq(Exceptions) /\ ToSet(c \o w) = ToSet(c) \cup ToSet(w)
    BY <1>1, JoinedSet
  <1>3. ToSet(c) \subseteq Criticals /\ ToSet(w) \subseteq Warnings
    <2>1. \A i \in DOMAIN c : c[i] \in Criticals
      OBVIOUS
    <2>2. \A i \in DOMAIN w : w[i] \in Warnings
      OBVIOUS
    <2> QED
      BY <2>1, <2>2, Zenon DEF ToSet
  <1>4. /\ \A e \in Criticals : AtLeastSevere(e, severity)
        /\ \A e \in Warnings : AtLeastSevere(e, severity) <=> severity # "critical"
    BY SevereEnough
  <1> DEFINE W == Severe(c \o w, severity)
  <1>5. /\ severity = "critical" => ToSet(c) \subseteq W /\ ToSet(w) \cap W = {}
        /\ severity # "critical" => ToSet(c \o w) \subseteq W
    BY <1>2, <1>3, <1>4 DEF Severe
  <1> HIDE DEF W
  <1>6. CASE severity = "critical"
    <2>2. Only(c, W) = c /\ Only(w, W) = <<>>
      BY <1>1, <1>5, <1>6, OnlyAllOrNone
    <2>3. Only(c \o w, W) = Only(c, W) \o Only(w, W)
      BY <1>1, OnlyJoin
    <2>4. c \o <<>> = c
      BY <1>1, JoinedAppend
    <2> QED
      BY <1>6, <2>2, <2>3, <2>4 DEF W
  <1>7. CASE severity # "critical"
    <2>2. Only(c \o w, W) = c \o w
      BY <1>2, <1>5, <1>7, OnlyAllOrNone
    <2> QED
      BY <1>7, <2>2 DEF W
  <1> QED
    BY <1>6, <1>7

\* How many of a ranked list are critical.
LEMMA CriticalsFirst ==
    ASSUME NEW c \in Seq(Criticals), NEW w \in Seq(Warnings)
    PROVE  /\ Cardinality({i \in DOMAIN (c \o w) : (c \o w)[i].severity = "critical"}) = Len(c)
           /\ SubSeq(c \o w, 1, Len(c)) = c
  <1>1. c \in Seq(Exceptions) /\ w \in Seq(Exceptions)
    <2>1. Criticals \subseteq Exceptions /\ Warnings \subseteq Exceptions
      BY DEF Criticals, Warnings
    <2> QED
      BY <2>1
  <1> DEFINE u == c \o w
             S == {i \in DOMAIN u : u[i].severity = "critical"}
  <1>2. /\ Len(c) \in Nat /\ Len(w) \in Nat /\ DOMAIN u = 1..(Len(c) + Len(w))
        /\ \A k \in 1..Len(c) : u[k] = c[k]
        /\ \A k \in 1..Len(w) : u[Len(c) + k] = w[k]
    BY <1>1
  <1>3. SubSeq(u, 1, Len(c)) = c
    BY <1>1, CutJoin
  <1>4. /\ \A k \in 1..Len(c) : c[k].severity = "critical"
        /\ \A k \in 1..Len(w) : w[k].severity = "warning"
    <2>1. (\A k \in 1..Len(c) : c[k] \in Criticals) /\ (\A k \in 1..Len(w) : w[k] \in Warnings)
      OBVIOUS
    <2> QED
      BY <2>1 DEF Criticals, Warnings
  <1> HIDE DEF u
  <1>5. S = 1..Len(c)
    <2>1. ASSUME NEW i \in 1..(Len(c) + Len(w)) PROVE i \in S <=> i \in 1..Len(c)
      <3>1. CASE i <= Len(c)
        BY <1>2, <1>4, <3>1
      <3>2. CASE i > Len(c)
        <4>1. i - Len(c) \in 1..Len(w) /\ Len(c) + (i - Len(c)) = i
          BY <1>2, <3>2
        <4>2. u[i].severity = "warning"
          BY <1>2, <1>4, <4>1, ZenonT(40)
        <4> QED
          BY <1>2, <3>2, <4>2
      <3> QED
        BY <1>2, <3>1, <3>2
    <2>2. S \subseteq 1..(Len(c) + Len(w)) /\ 1..Len(c) \subseteq 1..(Len(c) + Len(w))
      BY <1>2
    <2> HIDE DEF S
    <2> QED
      BY <2>1, <2>2
  <1>6. Cardinality(S) = Len(c)
    BY <1>2, <1>5, OneTo
  <1> QED
    BY <1>3, <1>6 DEF u

\* listOpenExceptions: the answer is the open exceptions from the asked
\* severity up.
LEMMA ListReplies ==
    ASSUME IInv, EInv, Asking, req.route = "list_open_exceptions", Held,
           RefuseSeverity \/ ReplyOpenExceptions
    PROVE  ListTrue'
  <1>0. /\ bstep' = bstep /\ open' = open /\ req' = req
        /\ req.route \notin HttpRoutes
        /\ Refused <=> req.severity \notin Accepted
    <2>1. UNCHANGED inert
      BY DEF RefuseSeverity, ReplyOpenExceptions
    <2>2. DOMAIN Severities = {"critical", "warning", "info"}
      BY DEF Severities
    <2>3. Refused <=> req.severity \notin Accepted
      <3>1. DOMAIN Severities \cup {""} = Accepted
        BY <2>2, Zenon DEF Accepted, Named
      <3> QED
        BY <3>1, Zenon DEF Refused
    <2>4. "list_open_exceptions" \notin HttpRoutes
      BY DEF HttpRoutes
    <2> QED
      BY <2>1, <2>3, <2>4 DEF inert, briefVars
  <1>1. CASE RefuseSeverity
    <2>1. Refused /\ reply' = [status |-> "tool error", body |-> <<>>] /\ bstep = "idle"
      BY <1>1 DEF RefuseSeverity, Answer, Asking
    <2> QED
      <3>1. reply'.status = "tool error" /\ bstep' = "idle" /\ req'.severity \notin Accepted
        BY <1>0, <2>1
      <3> QED
        BY <3>1, Zenon DEF ListTrue, Accepted, Named
  <1>2. CASE ReplyOpenExceptions
    <2> DEFINE W == {e \in ToSet(open) : AtLeastSevere(e, req.severity)}
    <2>1. bstep = "done" /\ reply' = [status |-> "result", body |-> Only(open, W)]
      BY <1>0, <1>2 DEF ReplyOpenExceptions, Answer, Ok
    <2>2. req.severity \in Accepted
      BY <1>0, <2>1 DEF Asking
    <2>3. PICK c \in Seq(Criticals), w \in Seq(Warnings) : open = c \o w
      BY <2>1 DEF EInv, RankedUpTo
    <2>4. PICK v \in Accepted : v = req.severity
      BY <2>2
    <2>5. W = Severe(c \o w, v)
      BY <2>3, <2>4 DEF Severe
    <2> HIDE DEF W
    <2>6. /\ v = "critical" => Only(c \o w, Severe(c \o w, v)) = c
          /\ v # "critical" => Only(c \o w, Severe(c \o w, v)) = c \o w
      BY KeepsSevere
    <2>7. /\ Cardinality({i \in DOMAIN (c \o w) : (c \o w)[i].severity = "critical"}) = Len(c)
          /\ SubSeq(c \o w, 1, Len(c)) = c
      BY CriticalsFirst
    <2>8. Only(open, W) = IF req.severity = "critical"
                          THEN SubSeq(open, 1, Cardinality({i \in DOMAIN open :
                                                  open[i].severity = "critical"}))
                          ELSE open
      BY <2>3, <2>4, <2>5, <2>6, <2>7, Zenon
    <2> QED
      <3>1. /\ reply'.status = "result" /\ reply'.body = Only(open, W) /\ bstep' = "done"
            /\ req'.severity \in Accepted /\ open' = open /\ req' = req
        BY <1>0, <2>1, <2>2
      <3> QED
        BY <2>8, <3>1, Zenon DEF ListTrue, Accepted, Named
  <1> QED
    BY <1>1, <1>2

\* getOrderLifecycle, toOrderLifecycleDTO: the verdict and the seal are true.
LEMMA LookupReplies == ASSUME OInv, ReplyLifecycle PROVE LookupTrue'
  <1>1. ostep = "done" /\ lookups' = lookups
    BY DEF ReplyLifecycle, inert, lifecycleVars
  <1>2. (verdict = "not_found" <=> lookups.order = "not_found") /\ verdict \in {"found", "not_found"}
    BY <1>1 DEF OInv, OrderKnown, LookupControl
  <1>3. CASE verdict = "not_found"
    <2>1. reply' = [status |-> "404", body |-> <<>>]
      BY <1>3 DEF ReplyLifecycle, Answer
    <2> QED
      BY <1>1, <1>2, <1>3, <2>1 DEF LookupTrue
  <1>4. CASE verdict = "found"
    <2> DEFINE told == "fulfillment" \in DOMAIN stages /\ Sealed(stages["fulfillment"])
               slam == \E k \in DOMAIN lookups.tasks : "SLAM completed" \in ToSet(lookups.tasks[k])
    <2>1. reply' = [status |-> "200", body |-> [stages |-> stages, sealed |-> told]]
      BY <1>4 DEF ReplyLifecycle, Answer, ToOrderLifecycleDTO
    <2>2. /\ "SLAM completed" \in ToSet(tasks) <=> slam
          /\ IF tasks = <<>> THEN "fulfillment" \notin DOMAIN stages
             ELSE "fulfillment" \in DOMAIN stages /\ stages["fulfillment"] = tasks
      BY <1>4 DEF OInv, TasksHeld
    <2>3. /\ Sealed(tasks) <=> "SLAM completed" \in ToSet(tasks)
          /\ tasks = <<>> => "SLAM completed" \notin ToSet(tasks)
      <3>1. DOMAIN <<>> = {}
        OBVIOUS
      <3> QED
        BY <3>1, Zenon DEF ToSet, Sealed
    <2>4. told <=> slam
      BY <2>2, <2>3
    <2>5. reply'.status = "200" /\ (reply'.body.sealed <=> told)
      BY <2>1
    <2> QED
      BY <1>1, <1>2, <1>4, <2>4, <2>5 DEF LookupTrue
  <1> QED
    BY <1>2, <1>3, <1>4

\* serveDashboard, resolveWindow: the window answered is the one asked for.
LEMMA WindowReplies == ASSUME Asking, ServeDashboard PROVE WindowTrue'
  <1>1. /\ req.route = "/reports" /\ req' = req
        /\ req.from.time \in Int /\ req.to.time \in Int
    <2>1. req.route = "/reports" /\ req' = req
      BY DEF ServeDashboard, Serving, inert
    <2>2. {req.from, req.to} \subseteq [is : {"given", "absent", "malformed"}, time : Int]
      BY <2>1, RequestAssumption DEF Asking
    <2> QED
      BY <2>1, <2>2
  <1> DEFINE w == ResolveWindow(req.from, req.to)
  <1>2. /\ w.to \in Int /\ w.from \in Int
        /\ req.from.is = "given" => w.from = req.from.time
        /\ req.to.is = "given" => w.to = req.to.time
        /\ req.from.is # "given" => w.to - w.from = ReportWindow
    BY <1>1, WindowAssumption DEF ResolveWindow
  <1>3. CASE ParsesAsTime(req.from) /\ ParsesAsTime(req.to) /\ w.to > w.from
    <2>1. reply' = [status |-> "200", body |-> w]
      BY <1>3 DEF ServeDashboard, Answer
    <2>2. "malformed" \notin {req.from.is, req.to.is}
      BY <1>3 DEF ParsesAsTime
    <2> HIDE DEF w
    <2> QED
      BY <1>1, <1>2, <1>3, <2>1, <2>2 DEF WindowTrue
  <1>4. CASE ~(ParsesAsTime(req.from) /\ ParsesAsTime(req.to) /\ w.to > w.from)
    <2>1. reply' = [status |-> "400", body |-> <<>>]
      BY <1>4 DEF ServeDashboard, Answer
    <2> QED
      BY <2>1 DEF WindowTrue
  <1> QED
    BY <1>3, <1>4

\* Every route and tool: for any targets, contexts, answers and requests, the
\* filtered list, the verdict on an order and the window of a dashboard are
\* what the caller asked about.
THEOREM ServedRepliesAreTrue == Spec => []RepliesTrue
  <1>1. Init => Asking /\ RepliesTrue
    BY DEF Init, BriefInit, Asking, RepliesTrue
  <1>2. IInv /\ EInv /\ OInv /\ Asking /\ RepliesTrue /\ [Next]_vars => Asking' /\ RepliesTrue'
    <2> SUFFICES ASSUME IInv, EInv, OInv, Asking, RepliesTrue, [Next]_vars
                 PROVE  Asking' /\ RepliesTrue'
      OBVIOUS
    <2> DEFINE Replying ==
                  \/ NotWired \/ Healthz \/ RefuseSeverity \/ ReplyDailyBrief \/ ReplyOpenExceptions
                  \/ ReplyRuntimeSignals \/ ReplyLifecycle \/ GetFlowBalanceException
                  \/ FlowBalanceTool \/ StrandedReservation \/ ExplainTravelFactor \/ ServeDashboard
    <2>1. CASE UNCHANGED vars
      <3>1. UNCHANGED <<req, reply, holds, bstep, open, lookups>>
        BY <2>1 DEF vars, inboundVars, briefVars, lifecycleVars
      <3> QED
        BY <3>1 DEF Asking, Refused, RepliesTrue, Held, ListTrue, LookupTrue, WindowTrue
    <2>2. CASE RunDailyBrief \/ RunRuntimeSignals \/ RunLifecycle
      <3>1. reply = NoReply /\ reply' = NoReply /\ req' = req /\ (bstep' = bstep \/ ~Refused)
        BY <2>2 DEF RunDailyBrief, RunRuntimeSignals, RunLifecycle, Serving, inboundVars, briefVars
      <3> QED
        BY <3>1 DEF Asking, Refused, RepliesTrue
    <2>3. CASE Replying
      <3>1. UNCHANGED inert
        BY <2>3 DEF NotWired, Healthz, RefuseSeverity, ReplyDailyBrief, ReplyOpenExceptions,
           ReplyRuntimeSignals, ReplyLifecycle, GetFlowBalanceException, FlowBalanceTool,
           StrandedReservation, ExplainTravelFactor, ServeDashboard
      <3>2. Asking' /\ req' = req /\ (Held' <=> Held)
        BY <3>1 DEF inert, briefVars, Asking, Refused, Held
      <3>3. ASSUME Held, req.route = "list_open_exceptions" PROVE ListTrue'
        <4>1. RefuseSeverity \/ ReplyOpenExceptions
          BY <2>3, <3>3 DEF NotWired, Healthz, ReplyDailyBrief,
             ReplyRuntimeSignals, ReplyLifecycle, GetFlowBalanceException, FlowBalanceTool,
             StrandedReservation, ExplainTravelFactor, ServeDashboard, Serving
        <4> QED
          BY <3>3, <4>1, ListReplies
      <3>4. ASSUME Held, req.route = "/lifecycle" PROVE LookupTrue'
        <4>1. ReplyLifecycle
          BY <2>3, <3>4 DEF NotWired, Healthz, RefuseSeverity, ReplyDailyBrief, ReplyOpenExceptions,
             ReplyRuntimeSignals, GetFlowBalanceException, FlowBalanceTool,
             StrandedReservation, ExplainTravelFactor, ServeDashboard, Serving, BriefRoutes
        <4> QED
          BY <4>1, LookupReplies
      <3>5. ASSUME Held, req.route = "/reports" PROVE WindowTrue'
        <4>1. ServeDashboard
          BY <2>3, <3>5 DEF NotWired, Healthz, RefuseSeverity, ReplyDailyBrief, ReplyOpenExceptions,
             ReplyRuntimeSignals, ReplyLifecycle, GetFlowBalanceException, FlowBalanceTool,
             StrandedReservation, ExplainTravelFactor, Serving, BriefRoutes
        <4> QED
          BY <4>1, WindowReplies
      <3> QED
        BY <3>2, <3>3, <3>4, <3>5 DEF RepliesTrue
    <2> QED
      BY <2>1, <2>2, <2>3 DEF Next, Finished
  <1> QED
    BY <1>1, <1>2, ServesBrief, RankInvariance, ServesLookup, LookupInvariance, PTL DEF Spec
=============================================================================
