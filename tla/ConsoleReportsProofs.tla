------------------------ MODULE ConsoleReportsProofs ------------------------
(***************************************************************************)
(* The promises of a dashboard hold for any number of sections, any choice *)
(* of configured clients and any timeout.  What makes them inductive: each *)
(* goroutine's local section is, at each stage, what its context has said  *)
(* so far; the time a call has left fits into what remains of the bound;   *)
(* and the WaitGroup counts exactly the goroutines that have not ended.    *)
(***************************************************************************)
EXTENDS ConsoleReports, FiniteSetTheorems, TLAPS

Outcomes == {"none", "ok", "failed"}

Shapes ==
    /\ loop \in 0..N /\ returned \in BOOLEAN
    /\ stage \in [Sections -> Stages]
    /\ left \in [Sections -> 0..HTTPTimeout]
    /\ ctx \in {"live", "cancelled"} /\ clock \in Nat
    /\ DOMAIN local = Sections /\ local = [i \in Sections |-> local[i]]
    /\ DOMAIN sections = Sections /\ sections = [i \in Sections |-> sections[i]]
    /\ answered \in [Sections -> [fetch : Outcomes, freshness : Outcomes]]

Running == {i \in Sections : stage[i] \notin {"unborn", "done"}}

Counted ==
    /\ wg = Cardinality(Running)
    /\ \A i \in Sections : stage[i] = "unborn" <=> i > loop
    /\ returned => \A i \in Sections : stage[i] = "done"

\* The section under construction is what the context has said so far.
LocalTrue(i) ==
    /\ stage[i] \in {"unborn", "born", "fetch"} =>
           local[i] = Blank(i) /\ answered[i].fetch = "none" /\ answered[i].freshness = "none"
    /\ stage[i] \in Calls => i \in Wired
    /\ stage[i] = "freshness" =>
           /\ local[i] = ReportSection(i, TRUE, "none", FALSE)
           /\ answered[i].fetch = "ok" /\ answered[i].freshness = "none"
    /\ stage[i] \in {"built", "done"} => local[i] = Panel(i)
    /\ sections[i] = IF stage[i] = "done" THEN Panel(i) ELSE Blank(0)

\* What a section may still take fits into the bound.
InTime(i) ==
    /\ stage[i] \in {"unborn", "born"} => clock = 0
    /\ stage[i] = "fetch" => clock + left[i] <= HTTPTimeout
    /\ stage[i] = "freshness" => clock + left[i] <= 2 * HTTPTimeout

Sound == \A i \in Sections : LocalTrue(i) /\ InTime(i)

IInv == Shapes /\ Counted /\ Sound /\ LatencyBounded

-----------------------------------------------------------------------------
(* The WaitGroup.                                                          *)

\* Sections: finitely many goroutines, so counting them is arithmetic.
LEMMA RunningFinite ==
    /\ IsFiniteSet(Running) /\ Cardinality(Running) \in 0..N
    /\ IsFiniteSet(Running')
  <1>1. IsFiniteSet(1..N) /\ Cardinality(1..N) = N
    BY DashboardAssumption, FS_Interval
  <1>2. Running \subseteq 1..N /\ Running' \subseteq 1..N
    BY DEF Running, Sections
  <1>3. IsFiniteSet(Running) /\ IsFiniteSet(Running') /\ Cardinality(Running) <= N
    BY <1>1, <1>2, FS_Subset
  <1> QED
    BY <1>3, FS_CardinalityType, DashboardAssumption

-----------------------------------------------------------------------------
(* The steps.                                                              *)

\* wg.Add(1) and go: one goroutine more, and no time has passed so far.
LEMMA SpawnPreserves == ASSUME IInv, Spawn PROVE IInv'
  <1> DEFINE n == loop + 1
  <1> USE DEF IInv
  <1>1. n \in Sections /\ stage[n] = "unborn"
    BY DashboardAssumption DEF Spawn, Shapes, Counted, Sections
  <1>2. /\ stage' = [stage EXCEPT ![n] = "born"] /\ loop' = n /\ wg' = wg + 1
        /\ UNCHANGED <<returned, left, local, sections, ctx, clock, answered>>
    BY DEF Spawn
  <1>3. Shapes'
    BY <1>1, <1>2 DEF Shapes, Stages, Sections
  <1>4. Running' = Running \cup {n} /\ n \notin Running
    BY <1>1, <1>2 DEF Running, Shapes
  <1>5. Counted'
    <2>1. wg' = Cardinality(Running')
      BY <1>2, <1>4, RunningFinite, FS_AddElement DEF Counted
    <2>2. \A i \in Sections : stage'[i] = "unborn" <=> i > loop'
      BY <1>1, <1>2 DEF Counted, Shapes, Sections
    <2>3. returned' => \A i \in Sections : stage'[i] = "done"
      BY <1>1, <1>2 DEF Counted
    <2> QED
      BY <2>1, <2>2, <2>3 DEF Counted
  <1>6. Sound'
    BY <1>1, <1>2 DEF Sound, LocalTrue, InTime, Shapes, Panel, Calls
  <1>7. LatencyBounded'
    BY <1>2 DEF LatencyBounded
  <1> QED
    BY <1>3, <1>5, <1>6, <1>7

\* wg.Wait: the count is zero only when every goroutine has ended.
LEMMA ReturnPreserves == ASSUME IInv, Return PROVE IInv'
  <1> USE DEF IInv
  <1>1. /\ loop = N /\ wg = 0 /\ returned'
        /\ UNCHANGED <<loop, wg, stage, left, local, sections, ctx, clock, answered>>
    BY DEF Return, goroutines
  <1>2. Running = {}
    BY <1>1, RunningFinite, FS_EmptySet DEF Counted
  <1>3. \A i \in Sections : stage[i] = "done"
    <2> TAKE i \in Sections
    <2>1. ~(i > loop)
      BY <1>1, DashboardAssumption DEF Sections
    <2> QED
      BY <1>2, <2>1 DEF Running, Counted
  <1>4. Shapes'
    BY <1>1 DEF Shapes, Return
  <1>5. Counted'
    BY <1>1, <1>3 DEF Counted, Running
  <1>6. Sound' /\ LatencyBounded'
    BY <1>1 DEF Sound, LocalTrue, InTime, Panel, LatencyBounded
  <1> QED
    BY <1>4, <1>5, <1>6

\* A goroutine that goes on but does not end leaves the count alone.
LEMMA SameCount ==
    ASSUME Shapes, Counted, NEW i \in Sections, NEW s \in {"fetch", "freshness", "built"},
           stage[i] \in {"born", "fetch", "freshness"},
           stage' = [stage EXCEPT ![i] = s], UNCHANGED <<loop, wg, returned>>
    PROVE  Counted'
  <1>1. Running' = Running
    BY DEF Running, Shapes
  <1>2. \A j \in Sections : stage'[j] = "unborn" <=> stage[j] = "unborn"
    BY DEF Shapes
  <1>3. ~returned
    BY DEF Counted
  <1> QED
    BY <1>1, <1>2, <1>3 DEF Counted

\* runSection: what a goroutine does concerns its own section only.
LEMMA OneSection ==
    ASSUME Sound, NEW i \in Sections, LocalTrue(i)', InTime(i)', clock' = clock,
           \A j \in Sections : j # i =>
               /\ stage'[j] = stage[j] /\ left'[j] = left[j] /\ local'[j] = local[j]
               /\ sections'[j] = sections[j] /\ answered'[j] = answered[j]
    PROVE  Sound'
  <1>1. ASSUME NEW j \in Sections, j # i  PROVE LocalTrue(j)' /\ InTime(j)'
    <2>1. LocalTrue(j)'
      <3>1. LocalTrue(j) /\ Panel(j)' = Panel(j)
        BY <1>1 DEF Sound, Panel
      <3> QED
        BY <1>1, <3>1 DEF LocalTrue
    <2>2. InTime(j)'
      BY <1>1 DEF Sound, InTime
    <2> QED
      BY <2>1, <2>2
  <1> QED
    BY <1>1 DEF Sound

\* A section is called only if its client is configured.
LEMMA BeginPreserves == ASSUME IInv, NEW i \in Sections, Begin(i) PROVE IInv'
  <1> USE DEF IInv
  <1>1. /\ stage[i] = "born" /\ clock = 0
        /\ UNCHANGED <<loop, wg, returned, sections, ctx, clock, answered>>
    BY DEF Begin, Sound, InTime
  <1>2. CASE i \in Wired
    <2>1. /\ stage' = [stage EXCEPT ![i] = "fetch"]
          /\ left' = [left EXCEPT ![i] = HTTPTimeout] /\ local' = local
      BY <1>2 DEF Begin, Enters
    <2>2. Shapes'
      BY <1>1, <2>1, DashboardAssumption DEF Shapes, Stages
    <2>3. Counted'
      BY <1>1, <2>1, SameCount
    <2>4. /\ stage'[i] = "fetch" /\ left'[i] = HTTPTimeout
          /\ local[i] = Blank(i) /\ sections[i] = Blank(0)
          /\ answered[i].fetch = "none" /\ answered[i].freshness = "none"
      BY <1>1, <2>1 DEF Shapes, Sound, LocalTrue
    <2>5. LocalTrue(i)'
      BY <1>1, <1>2, <2>1, <2>4 DEF LocalTrue
    <2>6. InTime(i)'
      BY <1>1, <2>4, DashboardAssumption DEF InTime
    <2>7. Sound'
      BY <1>1, <2>1, <2>5, <2>6, OneSection DEF Shapes
    <2> QED
      BY <1>1, <2>2, <2>3, <2>7 DEF LatencyBounded
  <1>3. CASE i \notin Wired
    <2>1. /\ stage' = [stage EXCEPT ![i] = "built"] /\ left' = left
          /\ local' = [local EXCEPT ![i] = ReportSection(i, FALSE, "unwired", FALSE)]
      BY <1>3 DEF Begin, Enters
    <2>2. Shapes'
      BY <1>1, <2>1 DEF Shapes, Stages
    <2>3. Counted'
      BY <1>1, <2>1, SameCount
    <2>4. /\ stage'[i] = "built" /\ sections[i] = Blank(0)
          /\ local'[i] = ReportSection(i, FALSE, "unwired", FALSE)
      BY <1>1, <2>1 DEF Shapes, Sound, LocalTrue
    <2>5. Panel(i)' = local'[i]
      BY <1>3, <2>4 DEF Panel
    <2>6. LocalTrue(i)' /\ InTime(i)'
      BY <1>1, <2>4, <2>5 DEF LocalTrue, InTime, Calls
    <2>7. Sound'
      BY <1>1, <2>1, <2>6, OneSection DEF Shapes
    <2> QED
      BY <1>1, <2>2, <2>3, <2>7 DEF LatencyBounded
  <1> QED
    BY <1>2, <1>3

\* The report call.
LEMMA FetchPreserves == ASSUME IInv, NEW i \in Sections, FetchFails(i) \/ Fetched(i) PROVE IInv'
  <1> USE DEF IInv
  <1>1. /\ stage[i] = "fetch" /\ i \in Wired /\ clock + left[i] <= HTTPTimeout
        /\ answered[i].freshness = "none"
        /\ UNCHANGED <<loop, wg, returned, sections, ctx, clock>>
    BY DEF FetchFails, Fetched, Sound, LocalTrue, InTime, Calls
  <1>2. CASE FetchFails(i)
    <2>1. /\ stage' = [stage EXCEPT ![i] = "built"] /\ left' = left
          /\ local' = [local EXCEPT ![i] = ReportSection(i, FALSE, "unavailable", FALSE)]
          /\ answered' = [answered EXCEPT ![i].fetch = "failed"]
      BY <1>2 DEF FetchFails, Enters
    <2>2. Shapes'
      BY <1>1, <2>1 DEF Shapes, Stages, Outcomes
    <2>3. Counted'
      BY <1>1, <2>1, SameCount
    <2>4. answered'[i].fetch = "failed" /\ \A j \in Sections : j # i => answered'[j] = answered[j]
      BY <2>1 DEF Shapes
    <2>5. /\ stage'[i] = "built" /\ sections[i] = Blank(0)
          /\ local'[i] = ReportSection(i, FALSE, "unavailable", FALSE)
      BY <1>1, <2>1 DEF Shapes, Sound, LocalTrue
    <2>6. Panel(i)' = local'[i]
      BY <1>1, <2>4, <2>5 DEF Panel
    <2>7. LocalTrue(i)' /\ InTime(i)'
      BY <1>1, <2>5, <2>6 DEF LocalTrue, InTime, Calls
    <2>8. Sound'
      BY <1>1, <2>1, <2>4, <2>7, OneSection DEF Shapes
    <2> QED
      BY <1>1, <2>2, <2>3, <2>8 DEF LatencyBounded
  <1>3. CASE Fetched(i)
    <2>1. /\ stage' = [stage EXCEPT ![i] = "freshness"]
          /\ left' = [left EXCEPT ![i] = HTTPTimeout]
          /\ local' = [local EXCEPT ![i] = ReportSection(i, TRUE, "none", FALSE)]
          /\ answered' = [answered EXCEPT ![i].fetch = "ok"]
      BY <1>3 DEF Fetched, Enters
    <2>2. Shapes'
      <3>1. stage' \in [Sections -> Stages] /\ left' \in [Sections -> 0..HTTPTimeout]
        BY <2>1, DashboardAssumption DEF Shapes, Stages
      <3>2. answered' \in [Sections -> [fetch : Outcomes, freshness : Outcomes]]
        BY <2>1 DEF Shapes, Outcomes
      <3>3. DOMAIN local' = Sections /\ local' = [j \in Sections |-> local'[j]]
        BY <2>1 DEF Shapes
      <3> QED
        BY <1>1, <3>1, <3>2, <3>3 DEF Shapes
    <2>3. Counted'
      BY <1>1, <2>1, SameCount
    <2>4. /\ answered'[i].fetch = "ok" /\ answered'[i].freshness = "none"
          /\ \A j \in Sections : j # i => answered'[j] = answered[j]
      BY <1>1, <2>1 DEF Shapes
    <2>5. clock + HTTPTimeout <= 2 * HTTPTimeout
      <3>1. left[i] \in Nat /\ clock \in Nat /\ HTTPTimeout \in Nat
        BY DashboardAssumption DEF Shapes
      <3> QED
        BY <1>1, <3>1
    <2>6. /\ stage'[i] = "freshness" /\ sections[i] = Blank(0)
          /\ left'[i] = HTTPTimeout
          /\ local'[i] = ReportSection(i, TRUE, "none", FALSE)
      BY <1>1, <2>1 DEF Shapes, Sound, LocalTrue
    <2>7. LocalTrue(i)'
      BY <1>1, <2>4, <2>6 DEF LocalTrue
    <2>8. InTime(i)'
      BY <1>1, <2>5, <2>6 DEF InTime
    <2>9. Sound'
      BY <1>1, <2>1, <2>4, <2>7, <2>8, OneSection DEF Shapes
    <2> QED
      BY <1>1, <2>2, <2>3, <2>9 DEF LatencyBounded
  <1> QED
    BY <1>2, <1>3

\* The freshness call: whatever becomes of it, the report stays available.
LEMMA FreshnessPreserves ==
    ASSUME IInv, NEW i \in Sections, FreshnessFails(i) \/ Fresh(i) PROVE IInv'
  <1> USE DEF IInv
  <1>1. /\ stage[i] = "freshness" /\ i \in Wired /\ answered[i].fetch = "ok"
        /\ local[i] = ReportSection(i, TRUE, "none", FALSE)
        /\ stage' = [stage EXCEPT ![i] = "built"]
        /\ UNCHANGED <<loop, wg, returned, left, sections, ctx, clock>>
    BY DEF FreshnessFails, Fresh, Sound, LocalTrue, Calls, Enters
  <1>2. Counted'
    BY <1>1, SameCount
  <1>3. CASE FreshnessFails(i)
    <2>1. local' = local /\ answered' = [answered EXCEPT ![i].freshness = "failed"]
      BY <1>3 DEF FreshnessFails
    <2>2. Shapes'
      BY <1>1, <2>1 DEF Shapes, Stages, Outcomes
    <2>3. /\ answered'[i].fetch = "ok" /\ answered'[i].freshness = "failed"
          /\ \A j \in Sections : j # i => answered'[j] = answered[j]
      BY <1>1, <2>1 DEF Shapes
    <2>4. Panel(i)' = local'[i]
      BY <1>1, <2>1, <2>3 DEF Panel, ReportSection
    <2>5. stage'[i] = "built" /\ sections[i] = Blank(0)
      BY <1>1 DEF Shapes, Sound, LocalTrue
    <2>6. LocalTrue(i)' /\ InTime(i)'
      BY <1>1, <2>4, <2>5 DEF LocalTrue, InTime, Calls
    <2>7. Sound'
      BY <1>1, <2>1, <2>3, <2>6, OneSection DEF Shapes
    <2> QED
      BY <1>1, <1>2, <2>2, <2>7 DEF LatencyBounded
  <1>4. CASE Fresh(i)
    <2>1. /\ local' = [local EXCEPT ![i] = ReportSection(i, TRUE, "none", TRUE)]
          /\ answered' = [answered EXCEPT ![i].freshness = "ok"]
      BY <1>4 DEF Fresh
    <2>2. Shapes'
      BY <1>1, <2>1 DEF Shapes, Stages, Outcomes
    <2>3. /\ answered'[i].fetch = "ok" /\ answered'[i].freshness = "ok"
          /\ \A j \in Sections : j # i => answered'[j] = answered[j]
      BY <1>1, <2>1 DEF Shapes
    <2>4. Panel(i)' = local'[i]
      BY <1>1, <2>1, <2>3 DEF Panel, ReportSection, Shapes
    <2>5. stage'[i] = "built" /\ sections[i] = Blank(0)
      BY <1>1 DEF Shapes, Sound, LocalTrue
    <2>6. LocalTrue(i)' /\ InTime(i)'
      BY <1>1, <2>4, <2>5 DEF LocalTrue, InTime, Calls
    <2>7. Sound'
      BY <1>1, <2>1, <2>3, <2>6, OneSection DEF Shapes
    <2> QED
      BY <1>1, <1>2, <2>2, <2>7 DEF LatencyBounded
  <1> QED
    BY <1>3, <1>4

\* sections[i] = ... and wg.Done: one element, one goroutine less.
LEMMA DonePreserves == ASSUME IInv, NEW i \in Sections, Done(i) PROVE IInv'
  <1> USE DEF IInv
  <1>1. /\ stage[i] = "built" /\ stage' = [stage EXCEPT ![i] = "done"]
        /\ sections' = [sections EXCEPT ![i] = local[i]] /\ wg' = wg - 1
        /\ UNCHANGED <<loop, returned, left, local, ctx, clock, answered>>
    BY DEF Done, Enters
  <1>2. Shapes'
    BY <1>1 DEF Shapes, Stages
  <1>3. Counted'
    <2>1. Running' = Running \ {i} /\ i \in Running
      BY <1>1 DEF Running, Shapes
    <2>2. wg' = Cardinality(Running')
      BY <1>1, <2>1, RunningFinite, FS_RemoveElement DEF Counted
    <2>3. \A j \in Sections : stage'[j] = "unborn" <=> stage[j] = "unborn"
      BY <1>1 DEF Shapes
    <2>4. ~returned
      BY <1>1 DEF Counted
    <2> QED
      BY <1>1, <2>2, <2>3, <2>4 DEF Counted
  <1>4. Sound'
    <2>1. stage'[i] = "done" /\ local[i] = Panel(i) /\ sections'[i] = local[i]
      BY <1>1 DEF Shapes, Sound, LocalTrue
    <2>2. Panel(i)' = Panel(i)
      BY <1>1 DEF Panel
    <2>3. LocalTrue(i)' /\ InTime(i)'
      BY <1>1, <2>1, <2>2 DEF LocalTrue, InTime, Calls
    <2> QED
      BY <1>1, <2>3, OneSection DEF Shapes
  <1> QED
    BY <1>1, <1>2, <1>3, <1>4 DEF LatencyBounded

\* A tick passes only while every call has time left.
LEMMA TickPreserves == ASSUME IInv, Tick PROVE IInv'
  <1> USE DEF IInv
  <1>1. /\ \A i \in Sections : Waiting(i) \/ stage[i] = "done"
        /\ \E i \in Sections : Waiting(i)
        /\ left' = [i \in Sections |-> IF Waiting(i) THEN left[i] - 1 ELSE left[i]]
        /\ clock' = clock + 1
        /\ UNCHANGED <<loop, wg, returned, stage, local, sections, ctx, answered>>
    BY DEF Tick
  <1>2. HTTPTimeout \in Nat /\ clock \in Nat /\ \A i \in Sections : left[i] \in 0..HTTPTimeout
    BY DashboardAssumption DEF Shapes
  <1>3. \A i \in Sections : left'[i] \in 0..HTTPTimeout
    BY <1>1, <1>2 DEF Waiting, Can
  <1>4. Shapes'
    BY <1>1, <1>2, <1>3 DEF Shapes
  <1>5. Counted'
    BY <1>1 DEF Counted, Running
  <1>6. ASSUME NEW i \in Sections  PROVE LocalTrue(i)' /\ InTime(i)'
    <2>1. LocalTrue(i) /\ InTime(i) /\ Panel(i)' = Panel(i)
      BY <1>1 DEF Sound, Panel
    <2>2. LocalTrue(i)'
      BY <1>1, <2>1 DEF LocalTrue
    <2>3. CASE stage[i] = "done"
      <3>1. InTime(i)'
        BY <1>1, <2>3 DEF InTime
      <3> QED
        BY <2>2, <3>1
    <2>4. CASE Waiting(i)
      <3>1. stage[i] \in Calls /\ left'[i] = left[i] - 1
        BY <1>1, <2>4 DEF Waiting
      <3>2. InTime(i)'
        BY <1>1, <1>2, <2>1, <3>1 DEF InTime, Calls
      <3> QED
        BY <2>2, <3>2
    <2> QED
      BY <1>1, <2>2, <2>3, <2>4
  <1>7. LatencyBounded'
    <2> PICK i \in Sections : Waiting(i)
      BY <1>1
    <2>1. left[i] > 0 /\ stage[i] \in Calls /\ InTime(i)
      BY DEF Waiting, Can, Sound
    <2> QED
      BY <1>1, <1>2, <2>1 DEF InTime, Calls, LatencyBounded
  <1> QED
    BY <1>4, <1>5, <1>6, <1>7 DEF Sound

-----------------------------------------------------------------------------
(* The theorems.                                                           *)

\* runSections: at every moment each section under construction is what its
\* own context has said so far, and what it may still take fits the bound.
THEOREM Invariance == Spec => []IInv
  <1>1. Init => IInv
    <2> SUFFICES ASSUME Init PROVE IInv
      OBVIOUS
    <2>1. Shapes
      <3>1. /\ DOMAIN local = Sections /\ local = [i \in Sections |-> local[i]]
            /\ DOMAIN sections = Sections /\ sections = [i \in Sections |-> sections[i]]
        BY DEF Init
      <3>2. answered \in [Sections -> [fetch : Outcomes, freshness : Outcomes]]
        BY DEF Init, Outcomes
      <3>3. stage \in [Sections -> Stages] /\ left \in [Sections -> 0..HTTPTimeout]
        BY DashboardAssumption DEF Init, Stages
      <3>4. loop \in 0..N /\ clock \in Nat
        BY DashboardAssumption DEF Init
      <3>5. returned \in BOOLEAN /\ ctx \in {"live", "cancelled"}
        BY Zenon DEF Init
      <3> QED
        BY <3>1, <3>2, <3>3, <3>4, <3>5 DEF Shapes
    <2>2. Counted
      <3>1. Running = {}
        BY DEF Init, Running
      <3>2. \A i \in Sections : i > 0
        BY DashboardAssumption DEF Sections
      <3> QED
        BY <3>1, <3>2, FS_EmptySet DEF Init, Counted
    <2>3. Sound
      BY DEF Init, Sound, LocalTrue, InTime, Calls
    <2>4. LatencyBounded
      BY DashboardAssumption DEF Init, LatencyBounded
    <2> QED
      BY <2>1, <2>2, <2>3, <2>4 DEF IInv
  <1>2. IInv /\ [Next]_vars => IInv'
    <2> SUFFICES ASSUME IInv, [Next]_vars PROVE IInv'
      OBVIOUS
    <2>1. CASE UNCHANGED vars \/ Finished
      <3>1. /\ UNCHANGED <<loop, wg, returned, stage, left, local>>
            /\ UNCHANGED <<sections, ctx, clock, answered>>
        BY <2>1 DEF vars, goroutines, Finished
      <3>2. Shapes' /\ Counted'
        BY <3>1 DEF IInv, Shapes, Counted, Running
      <3> QED
        BY <3>1, <3>2 DEF IInv, Sound, LocalTrue, InTime, Panel, LatencyBounded
    <2>2. CASE Disconnect
      <3>1. /\ ctx' = "cancelled"
            /\ UNCHANGED <<loop, wg, returned, stage, left, local, sections, clock, answered>>
        BY <2>2 DEF Disconnect, goroutines
      <3> QED
        BY <3>1 DEF IInv, Shapes, Counted, Running, Sound, LocalTrue, InTime, Panel,
           LatencyBounded
    <2>3. CASE \E i \in Sections : Section(i)
      BY <2>3, BeginPreserves, FetchPreserves, FreshnessPreserves, DonePreserves
      DEF Section
    <2> QED
      BY <2>1, <2>2, <2>3, SpawnPreserves, ReturnPreserves, TickPreserves DEF Next
  <1> QED
    BY <1>1, <1>2, PTL DEF Spec

\* runSections: the types of the dashboard's state, and the WaitGroup's count.
THEOREM TypeCorrect == Spec => []TypeOK
  <1>1. IInv => TypeOK
    <2> SUFFICES ASSUME IInv PROVE TypeOK
      OBVIOUS
    <2>1. ASSUME NEW i \in Sections  PROVE local[i].id = i /\ sections[i].id \in {0, i}
      <3>1. Panel(i).id = i /\ Blank(i).id = i /\ Blank(0).id = 0
        BY DEF Panel, Blank, ReportSection
      <3>2. LocalTrue(i) /\ stage[i] \in Stages
        BY DEF IInv, Sound, Shapes
      <3> QED
        BY <3>1, <3>2 DEF LocalTrue, Stages, ReportSection
    <2> QED
      BY <2>1 DEF IInv, Shapes, Counted, Running, TypeOK
  <1> QED
    BY <1>1, Invariance, PTL

\* runSections, runSection: a returned dashboard shows, in declaration order,
\* exactly what each section's own context answered.
THEOREM PanelsAreTrue == Spec => []PanelsTrue
  <1>1. IInv => PanelsTrue
    BY DEF IInv, Counted, Sound, LocalTrue, PanelsTrue
  <1> QED
    BY <1>1, Invariance, PTL

\* runSections: whatever the number of sections, two calls' time is the most a
\* dashboard takes.
THEOREM LatencyIsBounded == Spec => []LatencyBounded
  <1>1. IInv => LatencyBounded
    BY DEF IInv
  <1> QED
    BY <1>1, Invariance, PTL

-----------------------------------------------------------------------------
(* The dashboard implements PartialReport.                                 *)

\* A wired section past its fetch has its context's answer, or its failure.
Settled ==
    \A i \in Sections : i \in Wired /\ stage[i] \in {"freshness", "built", "done"}
                           => answered[i].fetch # "none"

\* What each call leaves in the history of its own section.
LEMMA AnswersOf ==
    ASSUME Shapes, NEW i \in Sections
    PROVE  /\ FetchFails(i) => answered'[i].fetch = "failed" /\ stage'[i] = "built"
           /\ Fetched(i) => answered'[i].fetch = "ok" /\ stage'[i] = "freshness"
           /\ FreshnessFails(i) => answered'[i].fetch = answered[i].fetch
           /\ Fresh(i) => answered'[i].fetch = answered[i].fetch
           /\ Done(i) => answered'[i].fetch = answered[i].fetch
  <1> USE DEF Shapes, Enters
  <1>1. FetchFails(i) => answered'[i].fetch = "failed" /\ stage'[i] = "built"
    BY DEF FetchFails
  <1>2. Fetched(i) => answered'[i].fetch = "ok" /\ stage'[i] = "freshness"
    BY DEF Fetched
  <1>3. FreshnessFails(i) => answered'[i].fetch = answered[i].fetch
    BY DEF FreshnessFails
  <1>4. Fresh(i) => answered'[i].fetch = answered[i].fetch
    BY DEF Fresh
  <1>5. Done(i) => answered'[i].fetch = answered[i].fetch
    BY DEF Done
  <1> QED
    BY <1>1, <1>2, <1>3, <1>4, <1>5

\* runSection: a fetch that was made was answered or failed.
LEMMA SettledPreserved == ASSUME IInv, Settled, [Next]_vars PROVE Settled'
  <1> SUFFICES ASSUME NEW i \in Sections, i \in Wired,
                      stage'[i] \in {"freshness", "built", "done"}
               PROVE  answered'[i].fetch # "none"
    BY DEF Settled
  <1> USE DEF IInv, Shapes
  <1>1. CASE UNCHANGED <<stage, answered>>
    BY <1>1 DEF Settled
  <1>2. CASE Spawn
    BY <1>2 DEF Spawn, Settled, Sections, Stages
  <1>3. ASSUME NEW j \in Sections, Section(j) PROVE answered'[i].fetch # "none"
    <2>1. CASE j # i
      <3>1. stage'[i] = stage[i] /\ answered'[i].fetch = answered[i].fetch
        BY <1>3, <2>1 DEF Section, Begin, FetchFails, Fetched, FreshnessFails, Fresh, Done, Enters
      <3> QED
        BY <3>1 DEF Settled
    <2>2. CASE j = i
      <3>1. CASE Begin(i)
        BY <3>1 DEF Begin, Enters, Stages
      <3>2. CASE FetchFails(i) \/ Fetched(i)
        BY <3>2, AnswersOf
      <3>3. CASE FreshnessFails(i) \/ Fresh(i) \/ Done(i)
        <4>1. stage[i] \in {"freshness", "built"}
          BY <3>3 DEF FreshnessFails, Fresh, Done
        <4>2. answered'[i].fetch = answered[i].fetch
          BY <3>3, AnswersOf
        <4> QED
          BY <4>1, <4>2 DEF Settled
      <3> QED
        BY <1>3, <2>2, <3>1, <3>2, <3>3 DEF Section
    <2> QED
      BY <2>1, <2>2
  <1> QED
    BY <1>1, <1>2, <1>3
    DEF Next, vars, goroutines, Return, Disconnect, Tick, Finished

\* A step that changes neither how the sections were settled nor what was
\* returned is no step of the report.
LEMMA StutterOf ==
    ASSUME \A i \in Sections : PartOutcome(i)' = PartOutcome(i) /\ PartShown(i)' = PartShown(i)
    PROVE  UNCHANGED Report!vars
  BY DEF Report!vars

\* A step that settles section i and returns nothing is the report's Settle.
LEMMA SettleOf ==
    ASSUME NEW i \in Sections,
           PartOutcome(i) = "pending", PartOutcome(i)' \in {"answered", "failed"},
           \A j \in Sections : j # i => PartOutcome(j)' = PartOutcome(j),
           \A j \in Sections : PartShown(j)' = PartShown(j)
    PROVE  Report!Next
  <1>1. Report!Settle(i)
    BY DEF Report!Settle, Report!Outcomes
  <1> QED
    BY <1>1 DEF Report!Next

\* A section that goes on leaves the others, and what was returned, alone.
LEMMA OthersStay ==
    ASSUME IInv, NEW i \in Sections, Section(i)
    PROVE  /\ \A j \in Sections : j # i => PartOutcome(j)' = PartOutcome(j)
           /\ \A j \in Sections : PartShown(j)' = PartShown(j)
  <1>1. stage[i] # "done" /\ returned' = returned
    BY DEF Section, Begin, FetchFails, Fetched, FreshnessFails, Fresh, Done
  <1>2. ~returned /\ ~returned'
    BY <1>1 DEF IInv, Counted
  <1>3. ASSUME NEW j \in Sections, j # i
        PROVE  stage'[j] = stage[j] /\ answered'[j].fetch = answered[j].fetch
    BY <1>3 DEF Section, Begin, FetchFails, Fetched, FreshnessFails, Fresh, Done, Enters,
       IInv, Shapes
  <1> QED
    BY <1>2, <1>3 DEF PartOutcome, PartShown

\* runSection: each step of a section settles its part once, or nothing.
LEMMA SectionDegrades ==
    ASSUME IInv, NEW i \in Sections, Section(i)
    PROVE  Report!Next \/ UNCHANGED Report!vars
  <1> USE DEF IInv, Shapes
  <1>0. LocalTrue(i)
    BY DEF Sound
  <1>1. CASE Begin(i) /\ i \notin Wired
    <2>1. PartOutcome(i) = "pending" /\ PartOutcome(i)' = "failed"
      BY <1>1 DEF Begin, Enters, PartOutcome
    <2> QED
      BY <2>1, OthersStay, SettleOf
  <1>2. CASE FetchFails(i) \/ Fetched(i)
    <2>1. i \in Wired /\ answered[i].fetch = "none"
      BY <1>0, <1>2 DEF LocalTrue, Calls, FetchFails, Fetched
    <2>2. answered'[i].fetch \in {"ok", "failed"}
      BY <1>2, AnswersOf
    <2>3. PartOutcome(i) = "pending" /\ PartOutcome(i)' \in {"answered", "failed"}
      BY <2>1, <2>2 DEF PartOutcome
    <2> QED
      BY <2>3, OthersStay, SettleOf
  <1>3. CASE \/ Begin(i) /\ i \in Wired
             \/ FreshnessFails(i) \/ Fresh(i) \/ Done(i)
    <2>1. answered'[i].fetch = answered[i].fetch
      BY <1>3, AnswersOf DEF Begin
    <2>2. CASE i \in Wired
      <3>1. PartOutcome(i)' = PartOutcome(i)
        BY <2>1, <2>2 DEF PartOutcome
      <3> QED
        BY <3>1, OthersStay, StutterOf
    <2>3. CASE i \notin Wired
      <3>1. stage[i] = "built" /\ stage'[i] = "done"
        BY <1>0, <1>3, <2>3 DEF LocalTrue, Calls, FreshnessFails, Fresh, Done, Enters
      <3>2. PartOutcome(i)' = PartOutcome(i)
        BY <2>3, <3>1 DEF PartOutcome
      <3> QED
        BY <3>2, OthersStay, StutterOf
    <2> QED
      BY <2>2, <2>3
  <1> QED
    BY <1>1, <1>2, <1>3 DEF Section

\* runSections: wg.Wait returns once every section is settled, and the slice
\* it returns shows each section as its context left it.
LEMMA ReturnHandsOut == ASSUME IInv, IInv', Settled, Return PROVE Report!Next
  <1>1. /\ UNCHANGED <<stage, answered, sections>>
        /\ ~returned /\ returned'
    BY DEF Return, goroutines
  <1>2. ASSUME NEW i \in Sections
        PROVE  /\ PartOutcome(i) # "pending" /\ PartOutcome(i)' = PartOutcome(i)
               /\ PartShown(i) = "nothing" /\ PartShown(i)' = PartOutcome(i)
    <2>1. stage[i] = "done" /\ sections[i] = Panel(i)
      BY <1>1 DEF IInv, Counted, Sound, LocalTrue
    <2>2. i \in Wired => answered[i].fetch \in {"ok", "failed"}
      BY <2>1 DEF Settled, IInv, Shapes, Outcomes
    <2>3. sections[i].available <=> i \in Wired /\ answered[i].fetch = "ok"
      BY <2>1 DEF Panel, ReportSection
    <2> QED
      BY <1>1, <2>1, <2>2, <2>3 DEF PartOutcome, PartShown
  <1>3. Report!HandOut
    BY <1>2 DEF Report!HandOut, Report!Nothing
  <1> QED
    BY <1>3 DEF Report!Next

\* runSections: the dashboard, for any number of sections and any choice of
\* configured clients, implements PartialReport.
THEOREM DashboardImplementsReport == Spec => DashboardDegrades
  <1>1. Init => Report!Init /\ Settled
    BY DEF Init, Report!Init, Report!Nothing, PartOutcome, PartShown, Settled
  <1>2. IInv /\ IInv' /\ Settled /\ [Next]_vars => [Report!Next]_(Report!vars)
    <2> SUFFICES ASSUME IInv, IInv', Settled, [Next]_vars
                 PROVE  Report!Next \/ UNCHANGED Report!vars
      OBVIOUS
    <2>1. CASE UNCHANGED <<returned, stage, sections, answered>>
      BY <2>1, StutterOf DEF PartOutcome, PartShown
    <2>2. CASE Spawn
      <3>1. \A i \in Sections : PartShown(i)' = PartShown(i)
        BY <2>2 DEF Spawn, PartShown
      <3>2. ASSUME NEW i \in Sections PROVE PartOutcome(i)' = PartOutcome(i)
        <4>1. stage[loop + 1] = "unborn" /\ loop + 1 \in Sections
          BY <2>2, DashboardAssumption DEF Spawn, IInv, Shapes, Counted, Sections
        <4> QED
          BY <2>2, <4>1 DEF Spawn, PartOutcome, IInv, Shapes
      <3> QED
        BY <3>1, <3>2, StutterOf
    <2>3. CASE Return
      BY <2>3, ReturnHandsOut
    <2>4. CASE \E i \in Sections : Section(i)
      BY <2>4, SectionDegrades
    <2> QED
      BY <2>1, <2>2, <2>3, <2>4 DEF Next, vars, goroutines, Disconnect, Tick, Finished
  <1>3. IInv /\ Settled /\ [Next]_vars => Settled'
    BY SettledPreserved
  <1> QED
    BY <1>1, <1>2, <1>3, Invariance, PTL DEF Spec, DashboardDegrades, Report!Spec
=============================================================================
