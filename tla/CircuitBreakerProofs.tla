------------------------ MODULE CircuitBreakerProofs ------------------------
(***************************************************************************)
(* Proofs about CircuitBreaker, for every set of callers, every threshold  *)
(* and either reading of an excluded result.                               *)
(*                                                                         *)
(* The invariant is a predicate of the breaker value (Sound), shown to be  *)
(* kept by each of the breaker's operations, plus two facts that tie the   *)
(* breaker to its callers and to the history variable.                     *)
(***************************************************************************)
EXTENDS CircuitBreaker, FiniteSetTheorems, TLAPS

\* The requests counted in this generation include those still in flight,
\* a half-open one counts at most MaxRequests, an open one has none in
\* flight, and the gauge shows the state.
Sound(b) ==
    /\ b \in BreakerType
    /\ Cardinality(b.cohort) <= b.counts.requests
    /\ b.state = "half-open" => b.counts.requests <= MaxRequests
    /\ b.state = "open" => b.cohort = {}
    /\ b.gauge = b.state \/ (b.gauge = "unset" /\ b.state = "closed")
    /\ b.counts.consecFailures <= b.counts.failures
    /\ b.state = "closed" => b.ttl <= Interval

\* Only a caller inside Execute has its request counted as in flight.
CohortInFlight == \A c \in breaker.cohort : call[c] = "inflight"

\* The failures counted in a running window all happened in it.
FreshFailures ==
    /\ breaker.counts.failures = 0 => failAge = 0
    /\ breaker.state = "closed" /\ breaker.counts.failures > 0 /\ breaker.ttl > 0
       => failAge + breaker.ttl <= Interval

\* The inductive invariant.
IInv == TypeOK /\ Sound(breaker) /\ CohortInFlight /\ FreshFailures

-----------------------------------------------------------------------------
(* The breaker's operations keep Sound.                                    *)

\* A cohort is a finite set, so counting it is meaningful.
LEMMA CohortFinite ==
    ASSUME NEW b, Sound(b)
    PROVE  IsFiniteSet(b.cohort) /\ Cardinality(b.cohort) \in Nat
<1>1. b.cohort \subseteq Callers /\ IsFiniteSet(Callers)
  BY BreakerAssumption DEF Sound, BreakerType
<1> QED
  BY <1>1, FS_Subset, FS_CardinalityType

\* A new generation is a breaker value with its counts and cohort cleared.
LEMMA NewGenerationFields ==
    ASSUME NEW b \in BreakerType, NEW s \in States
    PROVE  /\ NewGeneration(b, s) \in BreakerType
           /\ NewGeneration(b, s).state = s
           /\ NewGeneration(b, s).counts = NoCounts
           /\ NewGeneration(b, s).ttl = WindowOf(s)
           /\ NewGeneration(b, s).cohort = {}
           /\ NewGeneration(b, s).gauge = b.gauge
BY BreakerAssumption
   DEF NewGeneration, BreakerType, CountsType, NoCounts, WindowOf, States

\* A change of state starts a generation and shows in the gauge.
LEMMA SetStateFields ==
    ASSUME NEW b \in BreakerType, NEW s \in States, b.state # s
    PROVE  /\ SetState(b, s) \in BreakerType
           /\ SetState(b, s).state = s
           /\ SetState(b, s).counts = NoCounts
           /\ SetState(b, s).ttl = WindowOf(s)
           /\ SetState(b, s).cohort = {}
           /\ SetState(b, s).gauge = s
<1> DEFINE n == NewGeneration(b, s)
<1>1. /\ n \in BreakerType /\ n.state = s /\ n.counts = NoCounts
      /\ n.ttl = WindowOf(s) /\ n.cohort = {}
  BY NewGenerationFields
<1>2. SetState(b, s) = [n EXCEPT !.gauge = n.state]
  BY DEF SetState, RecordStateChange
<1> HIDE DEF n
<1> QED
  BY <1>1, <1>2 DEF BreakerType

\* A breaker just entering a generation is sound.
LEMMA FreshSound ==
    ASSUME NEW d \in BreakerType, d.counts = NoCounts, d.cohort = {},
           d.ttl = WindowOf(d.state),
           d.gauge = d.state \/ (d.gauge = "unset" /\ d.state = "closed")
    PROVE  Sound(d)
<1>1. Cardinality(d.cohort) = 0
  BY FS_EmptySet
<1>2. d.counts.requests = 0 /\ d.counts.failures = 0 /\ d.counts.consecFailures = 0
  BY DEF NoCounts
<1>3. 0 <= MaxRequests /\ Interval \in Nat
  BY BreakerAssumption
<1>4. d.state = "closed" => d.ttl = Interval
  BY DEF WindowOf
<1> QED
  BY <1>1, <1>2, <1>3, <1>4 DEF Sound

\* Entering a state keeps a breaker sound.
LEMMA SetStateSound ==
    ASSUME NEW b, Sound(b), NEW s \in States
    PROVE  Sound(SetState(b, s))
<1>1. CASE b.state = s
  BY <1>1 DEF SetState
<1>2. CASE b.state # s
  <2> DEFINE d == SetState(b, s)
  <2>1. b \in BreakerType
    BY DEF Sound
  <2>2. /\ d \in BreakerType /\ d.state = s /\ d.counts = NoCounts
        /\ d.ttl = WindowOf(s) /\ d.cohort = {} /\ d.gauge = s
    BY <1>2, <2>1, SetStateFields
  <2> HIDE DEF d
  <2>3. Sound(d)
    BY <2>2, FreshSound
  <2> QED
    BY <2>3 DEF d
<1> QED
  BY <1>1, <1>2

\* So does looking at the clock.
LEMMA CurrentStateSound ==
    ASSUME NEW b, Sound(b)
    PROVE  Sound(CurrentState(b))
<1>1. b \in BreakerType
  BY DEF Sound
<1>2. CASE b.state = "closed" /\ b.ttl = 0
  <2> DEFINE d == NewGeneration(b, "closed")
  <2>1. CurrentState(b) = d
    BY <1>2 DEF CurrentState
  <2>2. /\ d \in BreakerType /\ d.state = "closed" /\ d.counts = NoCounts
        /\ d.ttl = WindowOf("closed") /\ d.cohort = {} /\ d.gauge = b.gauge
    BY <1>1, NewGenerationFields DEF States
  <2> HIDE DEF d
  <2>3. Sound(d)
    BY <1>2, <2>2, FreshSound DEF Sound
  <2> QED
    BY <2>1, <2>3
<1>3. CASE b.state = "open" /\ b.ttl = 0
  BY <1>3, SetStateSound DEF CurrentState, States
<1>4. CASE ~(b.state = "closed" /\ b.ttl = 0) /\ ~(b.state = "open" /\ b.ttl = 0)
  BY <1>4 DEF CurrentState
<1> QED
  BY <1>2, <1>3, <1>4

\* So does admitting a caller that is not in flight, when Admits lets it.
LEMMA OnRequestSound ==
    ASSUME NEW b, Sound(b), Admits(b), NEW c \in Callers, c \notin b.cohort
    PROVE  Sound(OnRequest(b, c))
<1> DEFINE d == OnRequest(b, c)
<1>0. b \in BreakerType /\ b.counts \in CountsType
  BY DEF Sound, BreakerType
<1>1. /\ d \in BreakerType
      /\ d.counts.requests = b.counts.requests + 1
      /\ d.cohort = b.cohort \cup {c}
      /\ d.counts.failures = b.counts.failures
      /\ d.counts.consecFailures = b.counts.consecFailures
      /\ d.state = b.state /\ d.ttl = b.ttl /\ d.gauge = b.gauge
  <2> DEFINE n == [b.counts EXCEPT !.requests = @ + 1]
  <2>1. /\ n \in CountsType /\ n.requests = b.counts.requests + 1
        /\ n.failures = b.counts.failures
        /\ n.consecFailures = b.counts.consecFailures
    BY <1>0 DEF CountsType
  <2>2. d = [b EXCEPT !.counts = n, !.cohort = b.cohort \cup {c}]
    BY <1>0 DEF OnRequest, BreakerType, CountsType
  <2> HIDE DEF n
  <2>3. /\ d \in BreakerType /\ d.counts = n /\ d.cohort = b.cohort \cup {c}
        /\ d.state = b.state /\ d.ttl = b.ttl /\ d.gauge = b.gauge
    BY <1>0, <2>1, <2>2, ZenonT(40) DEF BreakerType
  <2> QED
    BY <2>1, <2>3
<1>2. Cardinality(d.cohort) = Cardinality(b.cohort) + 1
  BY <1>1, CohortFinite, FS_AddElement
<1>3. b.counts.requests \in Nat /\ MaxRequests \in Nat
  BY BreakerAssumption DEF Sound, BreakerType, CountsType
<1>4. d.state # "open"
  BY <1>1 DEF Admits
<1> HIDE DEF d
<1>5. Sound(d)
  BY <1>1, <1>2, <1>3, <1>4, CohortFinite DEF Sound, Admits
<1> QED
  BY <1>5 DEF d

\* Taking one caller out of the cohort, as every settled result does.
LEMMA LeaveSound ==
    ASSUME NEW b, Sound(b), NEW c \in b.cohort
    PROVE  /\ Sound([b EXCEPT !.cohort = @ \ {c}])
           /\ Cardinality(b.cohort \ {c}) + 1 <= b.counts.requests
<1> DEFINE d == [b EXCEPT !.cohort = @ \ {c}]
<1>1. /\ d \in BreakerType /\ d.cohort = b.cohort \ {c}
      /\ d.counts = b.counts /\ d.state = b.state /\ d.ttl = b.ttl /\ d.gauge = b.gauge
  BY DEF Sound, BreakerType
<1>2. Cardinality(b.cohort \ {c}) = Cardinality(b.cohort) - 1
  BY CohortFinite, FS_RemoveElement
<1>3. b.counts.requests \in Nat
  BY DEF Sound, BreakerType, CountsType
<1>4. Cardinality(b.cohort \ {c}) + 1 <= b.counts.requests
  BY <1>2, <1>3, CohortFinite DEF Sound
<1> HIDE DEF d
<1>5. Cardinality(d.cohort) <= d.counts.requests
  BY <1>1, <1>2, <1>3, CohortFinite DEF Sound
<1>6. Sound(d)
  BY <1>1, <1>5 DEF Sound
<1> QED
  BY <1>4, <1>6 DEF d

\* So does counting a success ...
LEMMA OnSuccessSound ==
    ASSUME NEW b, Sound(b)
    PROVE  Sound(OnSuccess(b))
<1>1. CASE b.state = "half-open"
  <2> DEFINE d == [b EXCEPT !.counts.consecSuccesses = @ + 1]
  <2>1. /\ d \in BreakerType /\ d.cohort = b.cohort
        /\ d.counts.requests = b.counts.requests
        /\ d.counts.failures = b.counts.failures
        /\ d.counts.consecFailures = b.counts.consecFailures
        /\ d.state = b.state /\ d.ttl = b.ttl /\ d.gauge = b.gauge
    BY DEF Sound, BreakerType, CountsType
  <2>2. OnSuccess(b) = IF d.counts.consecSuccesses >= MaxRequests
                       THEN SetState(d, "closed") ELSE d
    BY <1>1 DEF OnSuccess
  <2> HIDE DEF d
  <2>3. Sound(d)
    BY <2>1 DEF Sound
  <2> QED
    BY <2>2, <2>3, SetStateSound DEF States
<1>2. CASE b.state # "half-open"
  <2> DEFINE d == [b EXCEPT !.counts.consecFailures = 0]
  <2>1. /\ d \in BreakerType /\ d.cohort = b.cohort
        /\ d.counts.requests = b.counts.requests
        /\ d.counts.failures \in Nat
        /\ d.counts.consecFailures = 0
        /\ d.state = b.state /\ d.ttl = b.ttl /\ d.gauge = b.gauge
    BY DEF Sound, BreakerType, CountsType
  <2>2. OnSuccess(b) = d
    BY <1>2 DEF OnSuccess
  <2> HIDE DEF d
  <2> QED
    BY <2>1, <2>2 DEF Sound
<1> QED
  BY <1>1, <1>2

\* Counting a failure adds one to both kinds of failure counted.
LEMMA CountFailureFields ==
    ASSUME NEW k \in CountsType
    PROVE  /\ CountFailure(k) \in CountsType
           /\ CountFailure(k).requests = k.requests
           /\ CountFailure(k).failures = k.failures + 1
           /\ CountFailure(k).consecFailures = k.consecFailures + 1
<1> DEFINE m == [k EXCEPT !.failures = k.failures + 1]
<1>1. /\ m \in CountsType /\ m.requests = k.requests
      /\ m.failures = k.failures + 1 /\ m.consecFailures = k.consecFailures
  BY DEF CountsType
<1>2. CountFailure(k) = [m EXCEPT !.consecFailures = k.consecFailures + 1]
  BY DEF CountFailure, CountsType
<1>3. k.consecFailures + 1 \in Nat
  BY DEF CountsType
<1> HIDE DEF m
<1> QED
  BY <1>1, <1>2, <1>3 DEF CountsType

\* A failure leaves everything but the counts, before it may trip.
LEMMA OnFailureFields ==
    ASSUME NEW b \in BreakerType
    PROVE  LET d == [b EXCEPT !.counts = CountFailure(@)]
           IN  /\ d \in BreakerType /\ d.counts = CountFailure(b.counts)
               /\ d.cohort = b.cohort /\ d.state = b.state
               /\ d.ttl = b.ttl /\ d.gauge = b.gauge
<1>1. CountFailure(b.counts) \in CountsType
  BY CountFailureFields DEF BreakerType
<1> QED
  BY <1>1 DEF BreakerType

\* ... or a failure.
LEMMA OnFailureSound ==
    ASSUME NEW b, Sound(b)
    PROVE  Sound(OnFailure(b))
<1> DEFINE d == [b EXCEPT !.counts = CountFailure(@)]
<1>1. b \in BreakerType /\ b.counts \in CountsType
  BY DEF Sound, BreakerType
<1>2. /\ d \in BreakerType /\ d.counts = CountFailure(b.counts) /\ d.cohort = b.cohort
      /\ d.state = b.state /\ d.ttl = b.ttl /\ d.gauge = b.gauge
  BY <1>1, OnFailureFields
<1>3. OnFailure(b) = IF b.state = "half-open" \/ ReadyToTrip(d.counts)
                     THEN SetState(d, "open") ELSE d
  BY DEF OnFailure
<1> HIDE DEF d
<1>4. b.counts.failures \in Nat /\ b.counts.consecFailures \in Nat
  BY <1>1 DEF CountsType
<1>5. Sound(d)
  BY <1>1, <1>2, <1>4, CountFailureFields DEF Sound
<1> QED
  BY <1>3, <1>5, SetStateSound DEF States

\* So does settling any result, of this generation or of an older one.
LEMMA SettleSound ==
    ASSUME NEW b, Sound(b), NEW c, NEW outcome, NEW refund \in BOOLEAN
    PROVE  Sound(Settle(b, c, outcome, refund))
<1> DEFINE d == [b EXCEPT !.cohort = @ \ {c}]
<1>1. CASE c \notin b.cohort
  BY <1>1 DEF Settle
<1>2. CASE c \in b.cohort
  <2>1. Sound(d) /\ d.counts = b.counts /\ Cardinality(d.cohort) + 1 <= b.counts.requests
    BY <1>2, LeaveSound DEF Sound, BreakerType
  <2>2. Settle(b, c, outcome, refund) \in {OnSuccess(d), OnFailure(d), OnExclusion(d, refund)}
    BY <1>2 DEF Settle
  <2> HIDE DEF d
  <2>3. Sound(OnExclusion(d, refund))
    <3> DEFINE e == [d EXCEPT !.counts.requests = @ - 1]
    <3>1. d.counts.requests \in Nat /\ Cardinality(d.cohort) \in Nat
      BY <2>1, CohortFinite DEF Sound, BreakerType, CountsType
    <3>2. d.counts.requests - 1 \in Nat /\ Cardinality(d.cohort) <= d.counts.requests - 1
      BY <2>1, <3>1
    <3>3. /\ e \in BreakerType /\ e.cohort = d.cohort
          /\ e.counts.requests = d.counts.requests - 1
          /\ e.counts.failures = d.counts.failures
          /\ e.counts.consecFailures = d.counts.consecFailures
          /\ e.state = d.state /\ e.ttl = d.ttl /\ e.gauge = d.gauge
      BY <2>1, <3>2 DEF Sound, BreakerType, CountsType
    <3>4. OnExclusion(d, refund) = IF refund THEN e ELSE d
      BY DEF OnExclusion
    <3> HIDE DEF e
    <3>5. MaxRequests \in Nat
      BY BreakerAssumption
    <3>6. Sound(e)
      BY <2>1, <3>1, <3>2, <3>3, <3>5 DEF Sound
    <3> QED
      BY <2>1, <3>4, <3>6
  <2> QED
    BY <2>1, <2>2, <2>3, OnSuccessSound, OnFailureSound
<1> QED
  BY <1>1, <1>2

-----------------------------------------------------------------------------
(* What each operation leaves of the cohort, and when it changes the state. *)

\* Looking at the clock keeps the breaker or starts a generation of its own.
LEMMA CurrentStateCohort ==
    ASSUME NEW b \in BreakerType
    PROVE  /\ CurrentState(b).cohort \in {b.cohort, {}}
           /\ CurrentState(b).state # b.state =>
                b.state = "open" /\ CurrentState(b).state = "half-open"
           /\ b.ttl > 0 => CurrentState(b) = b
           /\ CurrentState(b) # b => CurrentState(b).counts = NoCounts
<1>1. CASE b.state = "closed" /\ b.ttl = 0
  BY <1>1, NewGenerationFields DEF CurrentState, States
<1>2. CASE b.state = "open" /\ b.ttl = 0
  BY <1>2, SetStateFields DEF CurrentState, States
<1>3. CASE ~(b.state = "closed" /\ b.ttl = 0) /\ ~(b.state = "open" /\ b.ttl = 0)
  BY <1>3 DEF CurrentState
<1> QED
  BY <1>1, <1>2, <1>3 DEF BreakerType

\* A settled result takes its caller out of the cohort and puts nobody in;
\* a result that is not of this generation changes nothing.
LEMMA SettleCohort ==
    ASSUME NEW b, Sound(b), NEW c, NEW outcome, NEW refund \in BOOLEAN
    PROVE  /\ Settle(b, c, outcome, refund).cohort \subseteq b.cohort \ {c}
           /\ c \notin b.cohort => Settle(b, c, outcome, refund) = b
<1> DEFINE d == [b EXCEPT !.cohort = @ \ {c}]
<1>1. CASE c \notin b.cohort
  BY <1>1 DEF Settle
<1>2. CASE c \in b.cohort
  <2>1. Sound(d) /\ d.cohort = b.cohort \ {c}
    BY <1>2, LeaveSound DEF Sound, BreakerType
  <2>2. Settle(b, c, outcome, refund) \in {OnSuccess(d), OnFailure(d), OnExclusion(d, refund)}
    BY <1>2 DEF Settle
  <2> HIDE DEF d
  <2>3. d \in BreakerType
    BY <2>1 DEF Sound
  <2>4. \A e \in BreakerType, s \in States :
            e.cohort = d.cohort => SetState(e, s).cohort \subseteq d.cohort
    <3> SUFFICES ASSUME NEW e \in BreakerType, NEW s \in States, e.cohort = d.cohort
                 PROVE  SetState(e, s).cohort \subseteq d.cohort
      OBVIOUS
    <3>1. CASE e.state = s
      BY <3>1 DEF SetState
    <3>2. CASE e.state # s
      BY <3>2, SetStateFields
    <3> QED
      BY <3>1, <3>2
  <2>5. OnSuccess(d).cohort \subseteq d.cohort
    <3> DEFINE e == [d EXCEPT !.counts.consecSuccesses = @ + 1]
    <3>1. e \in BreakerType /\ e.cohort = d.cohort
      BY <2>3 DEF BreakerType, CountsType
    <3>2. SetState(e, "closed").cohort \subseteq d.cohort
      BY <2>4, <3>1 DEF States
    <3> QED
      BY <2>3, <3>1, <3>2 DEF OnSuccess, BreakerType
  <2>6. OnFailure(d).cohort \subseteq d.cohort
    <3> DEFINE e == [d EXCEPT !.counts = CountFailure(@)]
    <3>1. e \in BreakerType /\ e.cohort = d.cohort
      BY <2>3, OnFailureFields
    <3>2. SetState(e, "open").cohort \subseteq d.cohort
      BY <2>4, <3>1 DEF States
    <3> QED
      BY <3>1, <3>2 DEF OnFailure
  <2>7. OnExclusion(d, refund).cohort = d.cohort
    BY <2>3 DEF OnExclusion, BreakerType
  <2> QED
    BY <1>2, <2>1, <2>2, <2>5, <2>6, <2>7
<1> QED
  BY <1>1, <1>2

\* How a result of this generation can move a closed breaker: it stays in
\* its window with at most one failure more, or it opens because that failure
\* makes it ready to trip.
LEMMA SettleClosed ==
    ASSUME NEW b, Sound(b), NEW c \in b.cohort, NEW outcome, NEW refund \in BOOLEAN,
           NEW r, r = Settle(b, c, outcome, refund)
    PROVE  /\ r.state = "closed" /\ r.counts.failures > 0 =>
                /\ b.state = "closed" /\ r.ttl = b.ttl
                /\ r.counts.failures \in {b.counts.failures, b.counts.failures + 1}
           /\ b.state = "closed" /\ r.state = "open" =>
                /\ ReadyToTrip(CountFailure(b.counts))
<1> DEFINE d == [b EXCEPT !.cohort = @ \ {c}]
<1>1. /\ Sound(d) /\ d.counts = b.counts /\ d.state = b.state /\ d.ttl = b.ttl
      /\ b.counts \in CountsType
  BY LeaveSound DEF Sound, BreakerType
<1>2. r \in {OnSuccess(d), OnFailure(d), OnExclusion(d, refund)}
  BY DEF Settle
<1> HIDE DEF d
<1>3. d \in BreakerType /\ d.counts \in CountsType
  BY <1>1 DEF Sound, BreakerType
<1>4. CASE r = OnSuccess(d)
  <2>1. CASE d.state = "half-open"
    <3> DEFINE e == [d EXCEPT !.counts.consecSuccesses = @ + 1]
    <3>1. /\ e \in BreakerType /\ e.state = "half-open"
      BY <1>3, <2>1 DEF BreakerType, CountsType
    <3>2. r = SetState(e, "closed") \/ r.state = "half-open"
      BY <1>4, <2>1, <3>1 DEF OnSuccess
    <3>3. /\ SetState(e, "closed").counts = NoCounts
          /\ SetState(e, "closed").state = "closed"
      BY <3>1, SetStateFields DEF States
    <3> QED
      BY <1>1, <2>1, <3>2, <3>3 DEF NoCounts
  <2>2. CASE d.state # "half-open"
    BY <1>1, <1>3, <1>4, <2>2 DEF OnSuccess, BreakerType, CountsType
  <2> QED
    BY <2>1, <2>2
<1>5. CASE r = OnFailure(d)
  <2> DEFINE e == [d EXCEPT !.counts = CountFailure(@)]
  <2>1. /\ e \in BreakerType /\ e.counts = CountFailure(d.counts)
        /\ e.state = d.state /\ e.ttl = d.ttl
    BY <1>3, OnFailureFields
  <2>2. r = IF d.state = "half-open" \/ ReadyToTrip(e.counts)
            THEN SetState(e, "open") ELSE e
    BY <1>5 DEF OnFailure
  <2> HIDE DEF e
  <2>3. SetState(e, "open").state = "open"
    <3>1. CASE e.state = "open"
      BY <3>1 DEF SetState
    <3>2. CASE e.state # "open"
      BY <2>1, <3>2, SetStateFields DEF States
    <3> QED
      BY <3>1, <3>2
  <2>4. e.counts.failures = b.counts.failures + 1
    BY <1>1, <2>1, CountFailureFields
  <2>5. CASE d.state = "half-open" \/ ReadyToTrip(e.counts)
    BY <1>1, <2>1, <2>2, <2>3, <2>5
  <2>6. CASE ~(d.state = "half-open" \/ ReadyToTrip(e.counts))
    BY <1>1, <2>1, <2>2, <2>4, <2>6
  <2> QED
    BY <2>5, <2>6
<1>6. CASE r = OnExclusion(d, refund)
  BY <1>1, <1>3, <1>6 DEF OnExclusion, BreakerType, CountsType
<1> QED
  BY <1>2, <1>4, <1>5, <1>6

-----------------------------------------------------------------------------
(* The invariant is inductive.                                             *)

\* A breaker just built by New satisfies the invariant.
LEMMA InitIInv == Init => IInv
<1> SUFFICES ASSUME Init PROVE IInv
  OBVIOUS
<1>1. /\ breaker \in BreakerType /\ breaker.state = "closed"
      /\ breaker.counts = NoCounts /\ breaker.ttl = Interval
      /\ breaker.cohort = {} /\ breaker.gauge = "unset"
  BY BreakerAssumption DEF Init, BreakerType, CountsType, NoCounts, States
<1>2. Sound(breaker)
  BY <1>1, FreshSound DEF WindowOf
<1>3. TypeOK
  BY <1>1 DEF Init, TypeOK
<1>4. CohortInFlight /\ FreshFailures
  BY <1>1 DEF Init, CohortInFlight, FreshFailures, NoCounts
<1> QED
  BY <1>2, <1>3, <1>4 DEF IInv

\* What CurrentState hands to either critical section.
LEMMA CurrentStateFacts ==
    ASSUME IInv, NEW b, b = CurrentState(breaker)
    PROVE  /\ Sound(b) /\ b \in BreakerType
           /\ b.cohort \subseteq breaker.cohort
           /\ b # breaker => b.counts.failures = 0 /\ b.cohort = {}
<1>1. Sound(breaker) /\ breaker \in BreakerType
  BY DEF IInv, Sound
<1>2. Sound(b)
  BY <1>1, CurrentStateSound
<1>3. b \in BreakerType
  BY <1>2 DEF Sound
<1>4. b # breaker => b.counts.failures = 0
  BY <1>1, CurrentStateCohort DEF NoCounts
<1>5. b # breaker => b.cohort = {}
  <2>1. CASE breaker.state = "closed" /\ breaker.ttl = 0
    BY <1>1, <2>1, NewGenerationFields DEF CurrentState, States
  <2>2. CASE breaker.state = "open" /\ breaker.ttl = 0
    BY <1>1, <2>2, SetStateFields DEF CurrentState, States
  <2>3. CASE ~(breaker.state = "closed" /\ breaker.ttl = 0) /\ ~(breaker.state = "open" /\ breaker.ttl = 0)
    BY <2>3 DEF CurrentState
  <2> QED
    BY <2>1, <2>2, <2>3
<1> QED
  BY <1>2, <1>3, <1>4, <1>5

\* Execute's first critical section keeps it when it admits ...
LEMMA AdmitIInv ==
    ASSUME IInv, NEW c \in Callers, Admit(c)
    PROVE  IInv'
<1> DEFINE b == CurrentState(breaker)
<1>1. /\ Sound(b) /\ b \in BreakerType /\ b.cohort \subseteq breaker.cohort
      /\ b # breaker => b.counts.failures = 0
  BY CurrentStateFacts
<1>2. /\ call[c] # "inflight" /\ Admits(b) /\ breaker' = OnRequest(b, c)
      /\ call' = [call EXCEPT ![c] = "inflight"] /\ TrackFailAge
  BY DEF Admit
<1> HIDE DEF b
<1>3. c \notin b.cohort
  BY <1>1, <1>2 DEF IInv, CohortInFlight
<1>4. Sound(breaker')
  BY <1>1, <1>2, <1>3, OnRequestSound
<1>5. /\ breaker'.cohort = b.cohort \cup {c}
      /\ breaker'.counts.failures = b.counts.failures
      /\ breaker'.state = b.state /\ breaker'.ttl = b.ttl
  BY <1>1, <1>2 DEF OnRequest, BreakerType, CountsType
<1>6. TypeOK'
  BY <1>2, <1>4 DEF IInv, TypeOK, Sound, TrackFailAge
<1>7. CohortInFlight'
  BY <1>1, <1>2, <1>5 DEF IInv, TypeOK, CohortInFlight
<1>8. FreshFailures'
  BY <1>1, <1>2, <1>5 DEF IInv, FreshFailures, TrackFailAge, Sound, BreakerType, CountsType
<1> QED
  BY <1>4, <1>6, <1>7, <1>8 DEF IInv

\* ... and when it rejects.
LEMMA RejectIInv ==
    ASSUME IInv, NEW c \in Callers, Reject(c)
    PROVE  IInv'
<1> DEFINE b == CurrentState(breaker)
<1>1. /\ Sound(b) /\ b \in BreakerType /\ b.cohort \subseteq breaker.cohort
      /\ b # breaker => b.counts.failures = 0
  BY CurrentStateFacts
<1>2. /\ call[c] # "inflight" /\ breaker' = b
      /\ call' = [call EXCEPT ![c] = "rejected"] /\ TrackFailAge
  BY DEF Reject
<1> HIDE DEF b
<1>3. TypeOK'
  BY <1>1, <1>2 DEF IInv, TypeOK, TrackFailAge
<1>4. CohortInFlight'
  BY <1>1, <1>2 DEF IInv, TypeOK, CohortInFlight
<1>5. FreshFailures'
  BY <1>1, <1>2 DEF IInv, FreshFailures, TrackFailAge, Sound, BreakerType, CountsType
<1> QED
  BY <1>1, <1>2, <1>3, <1>4, <1>5 DEF IInv

\* Execute's second critical section keeps it, whatever the result.
LEMMA CompleteIInv ==
    ASSUME IInv, NEW c \in Callers, NEW o \in Outcomes, Complete(c, o)
    PROVE  IInv'
<1> DEFINE b == CurrentState(breaker)
<1>1. /\ Sound(b) /\ b \in BreakerType /\ b.cohort \subseteq breaker.cohort
      /\ b # breaker => b.counts.failures = 0 /\ b.cohort = {}
  BY CurrentStateFacts
<1>2. /\ call[c] = "inflight" /\ call' = [call EXCEPT ![c] = "idle"] /\ TrackFailAge
  BY DEF Complete
<1>3. PICK refund \in ProbeRefunds : breaker' = Settle(b, c, o, refund)
  BY DEF Complete
<1>4. refund \in BOOLEAN
  BY BreakerAssumption
<1> HIDE DEF b
<1>5. Sound(breaker')
  BY <1>1, <1>3, <1>4, SettleSound
<1>6. breaker'.cohort \subseteq b.cohort \ {c}
  BY <1>1, <1>3, <1>4, SettleCohort
<1>7. TypeOK'
  BY <1>2, <1>5 DEF IInv, TypeOK, Sound, TrackFailAge
<1>8. CohortInFlight'
  BY <1>1, <1>2, <1>6 DEF IInv, TypeOK, CohortInFlight
<1>9. FreshFailures'
  <2>1. /\ failAge \in Nat /\ Interval \in Nat
        /\ breaker.counts.failures \in Nat /\ breaker'.counts.failures \in Nat
        /\ breaker.ttl \in Nat /\ breaker'.ttl \in Nat
    BY <1>5, BreakerAssumption DEF IInv, TypeOK, Sound, BreakerType, CountsType
  <2>2. CASE c \notin b.cohort
    <3>1. breaker' = b
      BY <1>1, <1>3, <1>4, <2>2, SettleCohort
    <3> QED
      BY <1>1, <1>2, <2>1, <3>1 DEF IInv, FreshFailures, TrackFailAge
  <2>3. CASE c \in b.cohort
    <3>1. b = breaker
      BY <1>1, <2>3
    <3>2. breaker'.state = "closed" /\ breaker'.counts.failures > 0 =>
            /\ breaker.state = "closed" /\ breaker'.ttl = breaker.ttl
            /\ breaker.ttl <= Interval
            /\ breaker'.counts.failures \in {breaker.counts.failures, breaker.counts.failures + 1}
      BY <1>1, <1>3, <1>4, <2>3, <3>1, SettleClosed DEF Sound
    <3> QED
      BY <1>2, <2>1, <3>2 DEF IInv, FreshFailures, TrackFailAge
  <2> QED
    BY <2>2, <2>3
<1> QED
  BY <1>5, <1>7, <1>8, <1>9 DEF IInv

\* Time passing keeps it: the window's rest and the failures' age move together.
LEMMA TickIInv ==
    ASSUME IInv, Tick
    PROVE  IInv'
<1>1. /\ breaker' = [breaker EXCEPT !.ttl = IF @ = 0 THEN 0 ELSE @ - 1]
      /\ failAge' = IF breaker.counts.failures = 0 \/ failAge > Interval
                    THEN failAge ELSE failAge + 1
      /\ call' = call
  BY DEF Tick
<1>2. /\ breaker \in BreakerType /\ breaker.ttl \in Nat /\ failAge \in Nat
      /\ Interval \in Nat /\ breaker.counts.failures \in Nat
  BY BreakerAssumption DEF IInv, TypeOK, BreakerType, CountsType
<1>3. /\ breaker' \in BreakerType
      /\ breaker'.state = breaker.state /\ breaker'.counts = breaker.counts
      /\ breaker'.cohort = breaker.cohort /\ breaker'.gauge = breaker.gauge
      /\ breaker'.ttl = IF breaker.ttl = 0 THEN 0 ELSE breaker.ttl - 1
  BY <1>1, <1>2 DEF BreakerType
<1>4. Sound(breaker')
  BY <1>2, <1>3 DEF IInv, Sound
<1>5. TypeOK'
  BY <1>1, <1>2, <1>3 DEF IInv, TypeOK
<1>6. CohortInFlight'
  BY <1>1, <1>3 DEF IInv, CohortInFlight
<1>7. FreshFailures'
  BY <1>1, <1>2, <1>3 DEF IInv, FreshFailures
<1> QED
  BY <1>4, <1>5, <1>6, <1>7 DEF IInv

\* The invariant holds after every step.
LEMMA NextIInv == IInv /\ [Next]_vars => IInv'
<1> SUFFICES ASSUME IInv, [Next]_vars PROVE IInv'
  OBVIOUS
<1>1. CASE Next
  BY <1>1, AdmitIInv, RejectIInv, CompleteIInv, TickIInv DEF Next
<1>2. CASE UNCHANGED vars
  <2>1. breaker' = breaker /\ call' = call /\ failAge' = failAge
    BY <1>2 DEF vars
  <2> QED
    BY <2>1 DEF IInv, TypeOK, CohortInFlight, FreshFailures
<1> QED
  BY <1>1, <1>2

\* The inductive invariant holds in every reachable state: counts, cohort,
\* gauge and callers agree, whatever the interleaving of Execute's sections.
THEOREM Invariance == Spec => []IInv
<1> QED
  BY InitIInv, NextIInv, PTL DEF Spec

-----------------------------------------------------------------------------
(* The properties the runs check on small instances.                       *)

\* Every reachable breaker value, caller and history is well typed: in
\* particular handing an admission back never makes a count negative.
THEOREM TypeCorrect == Spec => []TypeOK
<1>1. IInv => TypeOK
  BY DEF IInv
<1> QED
  BY <1>1, Invariance, PTL

\* The gauge never understates the load on the dependency: open means no
\* request in flight counts, half-open means at most MaxRequests do.
THEOREM GaugeBoundsTheLoad == Spec => []GaugeBoundsLoad
<1>1. IInv => GaugeBoundsLoad
  <2> SUFFICES ASSUME IInv PROVE GaugeBoundsLoad
    OBVIOUS
  <2>1. Sound(breaker) /\ Cardinality(breaker.cohort) \in Nat
        /\ breaker.counts.requests \in Nat /\ MaxRequests \in Nat
    BY CohortFinite, BreakerAssumption DEF IInv, Sound, BreakerType, CountsType
  <2> QED
    BY <2>1 DEF Sound, GaugeBoundsLoad
<1> QED
  BY <1>1, Invariance, PTL

\* A breaker in its cooldown admits nobody (ErrOpenState).
THEOREM OpenShedsLoad == Spec => ShedsWhileOpen
<1>1. IInv /\ [Next]_vars
      => [breaker.state = "open" /\ breaker.ttl > 0
          => \A c \in Callers : call[c] # "inflight" => call'[c] # "inflight"]_vars
  <2> SUFFICES ASSUME IInv, Next, breaker.state = "open", breaker.ttl > 0,
                      NEW c \in Callers, call[c] # "inflight"
               PROVE  call'[c] # "inflight"
    OBVIOUS
  <2>1. call \in [Callers -> {"idle", "inflight", "rejected"}]
    BY DEF IInv, TypeOK
  <2>2. CurrentState(breaker) = breaker
    BY CurrentStateCohort DEF IInv, TypeOK
  <2>3. ASSUME NEW d \in Callers, Admit(d) PROVE FALSE
    BY <2>2, <2>3 DEF Admit, Admits
  <2>4. ASSUME NEW d \in Callers, Reject(d) PROVE call'[c] # "inflight"
    BY <2>1, <2>4 DEF Reject
  <2>5. ASSUME NEW d \in Callers, NEW o \in Outcomes, Complete(d, o)
        PROVE call'[c] # "inflight"
    BY <2>1, <2>5 DEF Complete
  <2>6. ASSUME Tick PROVE call'[c] # "inflight"
    BY <2>6 DEF Tick
  <2> QED
    BY <2>3, <2>4, <2>5, <2>6 DEF Next
<1> QED
  BY <1>1, Invariance, PTL DEF Spec, ShedsWhileOpen

\* Only the return of a probe of the running cycle ends a half-open state:
\* a request admitted before the breaker opened cannot, however late it is.
THEOREM OnlyProbesDecide == Spec => ProbeDecides
<1>1. IInv /\ [Next]_vars
      => [breaker.state = "half-open" /\ breaker'.state # "half-open"
          => \E c \in breaker.cohort : call[c] = "inflight" /\ call'[c] = "idle"]_vars
  <2> SUFFICES ASSUME IInv, Next, breaker.state = "half-open", breaker'.state # "half-open"
               PROVE  \E c \in breaker.cohort : call[c] = "inflight" /\ call'[c] = "idle"
    OBVIOUS
  <2>1. /\ call \in [Callers -> {"idle", "inflight", "rejected"}]
        /\ breaker \in BreakerType /\ Sound(breaker)
    BY DEF IInv, TypeOK
  <2>2. CurrentState(breaker) = breaker
    BY DEF CurrentState
  <2>3. ASSUME NEW c \in Callers, Admit(c) PROVE FALSE
    BY <2>1, <2>2, <2>3 DEF Admit, OnRequest, BreakerType
  <2>4. ASSUME NEW c \in Callers, Reject(c) PROVE FALSE
    BY <2>2, <2>4 DEF Reject
  <2>5. ASSUME NEW c \in Callers, NEW o \in Outcomes, Complete(c, o)
        PROVE  c \in breaker.cohort /\ call[c] = "inflight" /\ call'[c] = "idle"
    <3>1. PICK refund \in ProbeRefunds : breaker' = Settle(breaker, c, o, refund)
      BY <2>2, <2>5 DEF Complete
    <3>2. refund \in BOOLEAN
      BY BreakerAssumption
    <3>3. c \in breaker.cohort
      BY <2>1, <3>1, <3>2, SettleCohort
    <3> QED
      BY <2>1, <2>5, <3>3 DEF Complete
  <2>6. ASSUME Tick PROVE FALSE
    BY <2>1, <2>6 DEF Tick, BreakerType
  <2> QED
    BY <2>3, <2>4, <2>5, <2>6 DEF Next
<1> QED
  BY <1>1, Invariance, PTL DEF Spec, ProbeDecides

\* Either leg of ReadyToTrip needs that many failures.
LEMMA TripNeedsFailures ==
    ASSUME NEW k \in CountsType, k.consecFailures <= k.failures, ReadyToTrip(k)
    PROVE  k.failures >= MinFailuresToTrip
<1>1. /\ k.failures \in Nat /\ k.consecFailures \in Nat /\ k.requests \in Nat
      /\ ConsecutiveLimit \in Nat /\ MinVolume \in Nat
  BY BreakerAssumption DEF CountsType
<1>2. CASE k.consecFailures >= ConsecutiveLimit
  <2>1. k.failures >= ConsecutiveLimit
    BY <1>1, <1>2
  <2>2. 2 * ConsecutiveLimit > MinVolume => ConsecutiveLimit >= (MinVolume \div 2) + 1
    BY <1>1
  <2> QED
    BY <1>1, <2>1, <2>2 DEF MinFailuresToTrip
<1>3. CASE k.requests >= MinVolume /\ 2 * k.failures > k.requests
  <2>1. 2 * k.failures > MinVolume
    BY <1>1, <1>3
  <2>2. k.failures >= (MinVolume \div 2) + 1
    BY <1>1, <2>1
  <2>3. 2 * ConsecutiveLimit <= MinVolume => k.failures >= ConsecutiveLimit
    BY <1>1, <2>1
  <2> QED
    BY <2>2, <2>3 DEF MinFailuresToTrip
<1> QED
  BY <1>2, <1>3 DEF ReadyToTrip

\* A closed breaker opens on enough failures and only on failures of the
\* window that is running: no stale history trips it.
THEOREM TripsAreEarned == Spec => TripsOnFreshFailures
<1>1. IInv /\ [Next]_vars
      => [breaker.state = "closed" /\ breaker'.state = "open"
          => /\ failAge <= Interval
             /\ breaker.counts.failures + 1 >= MinFailuresToTrip
             /\ breaker.counts.consecFailures + 1 < ConsecutiveLimit =>
                    /\ breaker.counts.requests >= MinVolume
                    /\ 2 * (breaker.counts.failures + 1) > breaker.counts.requests]_vars
  <2> DEFINE MajorityFailed ==
                 breaker.counts.consecFailures + 1 < ConsecutiveLimit =>
                     /\ breaker.counts.requests >= MinVolume
                     /\ 2 * (breaker.counts.failures + 1) > breaker.counts.requests
  <2> SUFFICES ASSUME IInv, Next, breaker.state = "closed", breaker'.state = "open"
               PROVE  /\ failAge <= Interval
                      /\ breaker.counts.failures + 1 >= MinFailuresToTrip
                      /\ MajorityFailed
    OBVIOUS
  <2> DEFINE b == CurrentState(breaker)
  <2>1. /\ Sound(b) /\ b \in BreakerType
        /\ b # breaker => b.cohort = {}
        /\ b.state = "closed"
        /\ breaker \in BreakerType /\ Sound(breaker)
    BY CurrentStateFacts, CurrentStateCohort DEF IInv, TypeOK
  <2>2. ASSUME NEW c \in Callers, Admit(c) PROVE FALSE
    <3>1. breaker' = OnRequest(b, c)
      BY <2>2 DEF Admit
    <3> QED
      BY <2>1, <3>1 DEF OnRequest, BreakerType
  <2>3. ASSUME NEW c \in Callers, Reject(c) PROVE FALSE
    BY <2>1, <2>3 DEF Reject
  <2>4. ASSUME Tick PROVE FALSE
    BY <2>1, <2>4 DEF Tick, BreakerType
  <2>5. ASSUME NEW c \in Callers, NEW o \in Outcomes, Complete(c, o)
        PROVE  /\ failAge <= Interval
               /\ breaker.counts.failures + 1 >= MinFailuresToTrip
               /\ MajorityFailed
    <3>1. PICK refund \in ProbeRefunds : breaker' = Settle(b, c, o, refund)
      BY <2>5 DEF Complete
    <3>2. refund \in BOOLEAN
      BY BreakerAssumption
    <3>3. c \in b.cohort
      BY <2>1, <3>1, <3>2, SettleCohort
    <3>4. b = breaker
      BY <2>1, <3>3
    <3>5. breaker.ttl > 0
      <4> SUFFICES ASSUME breaker.ttl = 0 PROVE FALSE
        BY <2>1 DEF BreakerType
      <4>1. b = NewGeneration(breaker, "closed")
        BY DEF CurrentState
      <4>2. b.cohort = {}
        BY <2>1, <4>1, NewGenerationFields DEF States
      <4> QED
        BY <3>3, <4>2
    <3>6. ReadyToTrip(CountFailure(breaker.counts))
      BY <2>1, <3>1, <3>2, <3>3, <3>4, SettleClosed
    <3>7. /\ breaker.counts \in CountsType /\ breaker.counts.failures \in Nat
          /\ breaker.counts.consecFailures \in Nat
          /\ breaker.counts.consecFailures <= breaker.counts.failures
      BY <2>1 DEF Sound, BreakerType, CountsType
    <3>8. breaker.counts.failures + 1 >= MinFailuresToTrip
      BY <3>6, <3>7, CountFailureFields, TripNeedsFailures
    <3>9. failAge <= Interval
      <4>1. failAge \in Nat /\ Interval \in Nat /\ breaker.ttl \in Nat
        BY <2>1, BreakerAssumption DEF IInv, TypeOK, BreakerType
      <4> QED
        BY <3>5, <3>7, <4>1 DEF IInv, FreshFailures
    <3>10. MajorityFailed
      <4>1. /\ breaker.counts.requests \in Nat
            /\ ConsecutiveLimit \in Nat /\ MinVolume \in Nat
        BY <3>7, BreakerAssumption DEF CountsType
      <4> QED
        BY <3>6, <3>7, <4>1, CountFailureFields DEF ReadyToTrip
    <3> QED
      BY <3>8, <3>9, <3>10
  <2> QED
    BY <2>2, <2>3, <2>4, <2>5 DEF Next
<1> QED
  BY <1>1, Invariance, PTL DEF Spec, TripsOnFreshFailures
=============================================================================
