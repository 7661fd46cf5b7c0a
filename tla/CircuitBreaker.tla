--------------------------- MODULE CircuitBreaker ---------------------------
(***************************************************************************)
(* The circuit breaker around the Anthropic Messages API call, one per     *)
(* process and shared by every concurrent Reason call                      *)
(* (internal/adapters/outbound/llm/anthropic/reasoner.go: New, call), with *)
(* the trip condition and the gauge hook of internal/resilience/breaker.go.*)
(*                                                                         *)
(* The state machine itself is sony/gobreaker v2, an external library: it  *)
(* is modelled from the settings New passes and the two critical sections  *)
(* its Execute runs under the breaker's mutex, one before the wrapped      *)
(* function and one after it.  Between the two any other goroutine may     *)
(* run, so each is an action of its own.                                   *)
(*                                                                         *)
(* gobreaker stamps an admitted request with a generation number and       *)
(* compares it on return; `cohort` holds the in-flight callers whose stamp *)
(* is the current one.  Expiry times are countdowns in ticks.              *)
(***************************************************************************)
EXTENDS Naturals, FiniteSets

CONSTANTS
    Callers,           \* goroutines that may be inside Reasoner.call
    MaxRequests,       \* resilience.DefaultMaxRequests: probes per half-open cycle
    ConsecutiveLimit,  \* ReadyToTrip's first leg: failures in a row
    MinVolume,         \* minRequestVolumeForErrorRate
    Interval,          \* resilience.DefaultInterval, in ticks
    Cooldown,          \* Settings.Timeout (resilience.DefaultCooldown), in ticks
    ProbeRefunds,      \* may an excluded result give its admission back? (library detail)
    WindowBound        \* bound: admissions per window the model explores

ASSUME BreakerAssumption ==
    /\ IsFiniteSet(Callers)
    /\ MaxRequests \in Nat \ {0}
    /\ ConsecutiveLimit \in Nat \ {0}
    /\ MinVolume \in Nat \ {0}
    /\ Interval \in Nat \ {0}
    /\ Cooldown \in Nat \ {0}
    /\ ProbeRefunds \in (SUBSET BOOLEAN) \ {{}}
    /\ WindowBound \in Nat \ {0}

VARIABLES
    breaker,  \* the gobreaker value, guarded by its mutex, and the gauge it publishes
    call,     \* what each caller's latest breaker.Execute is doing or returned
    failAge   \* history: ticks since the oldest failure `breaker.counts` includes

vars == <<breaker, call, failAge>>

States == {"closed", "half-open", "open"}

\* Counts as ReadyToTrip and the half-open probe rule read them.  Successes
\* in a row matter in the half-open state only, and are counted there only.
NoCounts == [requests |-> 0, failures |-> 0, consecFailures |-> 0, consecSuccesses |-> 0]

-----------------------------------------------------------------------------
(* The breaker's own operations, each on a breaker value.                  *)

\* The library's expiry of a state entered now; a half-open state has none.
WindowOf(s) == CASE s = "closed" -> Interval
                 [] s = "open" -> Cooldown
                 [] OTHER -> 0

\* A new generation: counts are cleared, no request in flight belongs to it.
NewGeneration(b, s) ==
    [b EXCEPT !.state = s, !.counts = NoCounts, !.ttl = WindowOf(s), !.cohort = {}]

\* OnStateChange: the new state's number is recorded in the gauge.
RecordStateChange(b) == [b EXCEPT !.gauge = b.state]

SetState(b, s) ==
    IF b.state = s THEN b ELSE RecordStateChange(NewGeneration(b, s))

\* What the library makes of an expired window or cooldown, lazily, as the
\* first thing in each critical section.
CurrentState(b) ==
    CASE b.state = "closed" /\ b.ttl = 0 -> NewGeneration(b, "closed")
      [] b.state = "open" /\ b.ttl = 0 -> SetState(b, "half-open")
      [] OTHER -> b

\* Mutant: the error-rate leg has no minimum volume.
ReadyToTripAtAnyVolume(counts) ==
    \/ counts.consecFailures >= ConsecutiveLimit
    \/ 2 * counts.failures > counts.requests

ReadyToTrip(counts) ==
    \/ counts.consecFailures >= ConsecutiveLimit
    \/ /\ counts.requests >= MinVolume
       /\ 2 * counts.failures > counts.requests

\* Mutants: half-open lets everyone in; the probe limit forgets the state.
AdmitsEveryProbe(b) == b.state \in {"closed", "half-open"}
AdmitsByCount(b) == b.state = "closed" \/ b.counts.requests < MaxRequests

\* ErrOpenState when open, ErrTooManyRequests when every probe is taken.
Admits(b) ==
    \/ b.state = "closed"
    \/ b.state = "half-open" /\ b.counts.requests < MaxRequests

OnRequest(b, c) ==
    [b EXCEPT !.counts.requests = @ + 1, !.cohort = @ \cup {c}]

OnSuccess(b) ==
    IF b.state = "half-open"
    THEN LET d == [b EXCEPT !.counts.consecSuccesses = @ + 1]
         IN  IF d.counts.consecSuccesses >= MaxRequests THEN SetState(d, "closed") ELSE d
    ELSE [b EXCEPT !.counts.consecFailures = 0]

CountFailure(counts) ==
    [counts EXCEPT !.failures = @ + 1, !.consecFailures = @ + 1]

OnFailure(b) ==
    LET d == [b EXCEPT !.counts = CountFailure(@)]
    IN  IF b.state = "half-open" \/ ReadyToTrip(d.counts) THEN SetState(d, "open") ELSE d

\* Mutant: an excluded result keeps its admission.
OnExclusionKept(b, refund) == b

\* IsExcluded (context.Canceled): neither a success nor a failure.
OnExclusion(b, refund) ==
    IF refund THEN [b EXCEPT !.counts.requests = @ - 1] ELSE b

\* Mutant: a late result counts in whatever generation it arrives.
SettleAnyGeneration(b, c, outcome, refund) ==
    LET d == [b EXCEPT !.cohort = @ \ {c}]
    IN  CASE outcome = "ok" -> OnSuccess(d)
          [] outcome = "failed" -> OnFailure(d)
          [] OTHER -> OnExclusion(d, refund)

\* A result whose generation is over is dropped.
Settle(b, c, outcome, refund) ==
    LET d == [b EXCEPT !.cohort = @ \ {c}]
    IN  CASE c \notin b.cohort -> b
          [] c \in b.cohort /\ outcome = "ok" -> OnSuccess(d)
          [] c \in b.cohort /\ outcome = "failed" -> OnFailure(d)
          [] OTHER -> OnExclusion(d, refund)

-----------------------------------------------------------------------------
(* Actions.                                                                *)

\* The history variable follows every change of the counts.
TrackFailAge ==
    failAge' = IF breaker.counts.failures = 0 \/ breaker'.counts.failures = 0
               THEN 0 ELSE failAge

\* Execute's first critical section lets the caller run its request.
Admit(c) ==
    LET b == CurrentState(breaker) IN
    /\ call[c] # "inflight"
    /\ Admits(b)
    /\ b.counts.requests < WindowBound
    /\ breaker' = OnRequest(b, c)
    /\ call' = [call EXCEPT ![c] = "inflight"]
    /\ TrackFailAge

\* ... or returns ErrOpenState / ErrTooManyRequests without running it.
Reject(c) ==
    LET b == CurrentState(breaker) IN
    /\ call[c] # "inflight"
    /\ ~Admits(b)
    /\ breaker' = b
    /\ call' = [call EXCEPT ![c] = "rejected"]
    /\ TrackFailAge

\* Execute's second critical section records what retryingRequest returned.
Complete(c, outcome) ==
    /\ call[c] = "inflight"
    /\ \E refund \in ProbeRefunds :
           breaker' = Settle(CurrentState(breaker), c, outcome, refund)
    /\ call' = [call EXCEPT ![c] = "idle"]
    /\ TrackFailAge

Tick ==
    /\ breaker' = [breaker EXCEPT !.ttl = IF @ = 0 THEN 0 ELSE @ - 1]
    /\ failAge' = IF breaker.counts.failures = 0 \/ failAge > Interval
                  THEN failAge ELSE failAge + 1
    /\ UNCHANGED call

Init ==
    /\ breaker = [state |-> "closed", counts |-> NoCounts, ttl |-> Interval,
                  cohort |-> {}, gauge |-> "unset"]
    /\ call = [c \in Callers |-> "idle"]
    /\ failAge = 0

Outcomes == {"ok", "failed", "excluded"}

Next ==
    \/ \E c \in Callers : Admit(c) \/ Reject(c)
    \/ \E c \in Callers, o \in Outcomes : Complete(c, o)
    \/ Tick

Spec == Init /\ [][Next]_vars

\* Time passes, a started request returns (its context has a deadline), and
\* operators keep asking for advice.
Fairness ==
    /\ WF_vars(Tick)
    /\ \A c \in Callers : /\ WF_vars(Admit(c) \/ Reject(c))
                          /\ WF_vars(\E o \in Outcomes : Complete(c, o))

FairSpec == Spec /\ Fairness

-----------------------------------------------------------------------------
(* Properties.                                                             *)

CountsType == [requests : Nat, failures : Nat, consecFailures : Nat, consecSuccesses : Nat]

BreakerType == [state : States, counts : CountsType, ttl : Nat,
                cohort : SUBSET Callers, gauge : States \cup {"unset"}]

\* Type invariant of the breaker's fields, its callers and the history.
TypeOK ==
    /\ breaker \in BreakerType
    /\ call \in [Callers -> {"idle", "inflight", "rejected"}]
    /\ failAge \in Nat

\* What the circuit_breaker_state gauge promises an operator: while it reads
\* open no request in flight can still change the breaker, and while it reads
\* half-open at most MaxRequests can (breaker.go: "only 1 probe request is
\* let through per half-open cycle").
GaugeBoundsLoad ==
    /\ breaker.gauge = "open" => breaker.cohort = {}
    /\ breaker.gauge = "half-open" => Cardinality(breaker.cohort) <= MaxRequests

\* While the breaker is open and its cooldown is running, no caller reaches
\* the server: Execute rejects every one of them.
ShedsWhileOpen ==
    [][breaker.state = "open" /\ breaker.ttl > 0
       => \A c \in Callers : call[c] # "inflight" => call'[c] # "inflight"]_vars

\* A half-open breaker is closed or reopened by the return of a probe of
\* that cycle, never by a request admitted before the breaker opened that
\* comes back late.
ProbeDecides ==
    [][breaker.state = "half-open" /\ breaker'.state # "half-open"
       => \E c \in breaker.cohort : call[c] = "inflight" /\ call'[c] = "idle"]_vars

\* The fewest failures that can satisfy one of the two legs.
MinFailuresToTrip ==
    IF 2 * ConsecutiveLimit <= MinVolume THEN ConsecutiveLimit ELSE (MinVolume \div 2) + 1

\* A closed breaker opens on enough failures, the one that trips it included,
\* and none of them older than the window: "a failure streak from long ago"
\* never combines with a fresh one.  They are the last so many in a row, or
\* more than half, never exactly half, of at least the minimum volume, so one
\* early failure of few requests trips nothing (breaker.go: ReadyToTrip,
\* DefaultInterval, minRequestVolumeForErrorRate).
TripsOnFreshFailures ==
    [][breaker.state = "closed" /\ breaker'.state = "open"
       => /\ failAge <= Interval
          /\ breaker.counts.failures + 1 >= MinFailuresToTrip
          /\ breaker.counts.consecFailures + 1 < ConsecutiveLimit =>
                 /\ breaker.counts.requests >= MinVolume
                 /\ 2 * (breaker.counts.failures + 1) > breaker.counts.requests]_vars

\* Once requests stop failing and callers stop giving up, the breaker comes
\* back: it does not stay open or half-open for ever.
Recovers ==
    <>[][\A c \in Callers : ~Complete(c, "failed") /\ ~Complete(c, "excluded")]_vars
    => []<>(breaker.state = "closed")
=============================================================================
