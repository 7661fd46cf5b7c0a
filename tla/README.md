# warehouse-ops-agent in TLA+

A verification project for the agent: TLA+ modules translated from the Go
source, TLC configurations that check them on small instances, and TLAPS proofs
of what matters most for every value of the constants. Line numbers refer to
the source as mapped in `PROJECT.json`; paths below are relative to
`internal/`.

## 1. The system

The agent is an advisory service. It owns no data: it reads eight other
bounded contexts (over MCP and REST), correlates what they say with fixed rules,
and answers operators, or a higher agent, with recommendations it never executes.
A language model may be consulted for one decision; the rules bound what it may
say. The process is concurrent (every inbound request is a goroutine), but
almost everything is request-local. What is shared is the circuit breaker in
front of the model's API, the gauge it publishes, and the tool invoker's cache.

| Component | State it keeps | Operations | What is hard | What makes it correct |
|---|---|---|---|---|
| Circuit breaker (`resilience/breaker.go`, `New` and `call` in `adapters/outbound/llm/anthropic/reasoner.go`, the gobreaker library) | state, counts, expiry, generation; gauge | admit, reject, report a result; time | results that come back in a later generation; lazy expiry; excluded (cancelled) probes | a failing API is shed, only a probe decides, no stale failure trips it, the gauge can be believed |
| Reasoner loop (`reasoner.go`, `resilience/deadline.go`) | per call: turn, attempts, context, audit trail | turn, request, retry, tool call, submit_plan | retries × turns, dead contexts at every point, exits that must report to the breaker | it ends, its cost is bounded, every exit is reported once, a leaving operator blames nobody |
| Flow-balance advisory (`application/usecases/flow_balance_advisory.go`, `domain/policy/flow_balance.go`, `arbitrate.go`, `utilization_correlation.go`) | per request: signals, decision | four readings, decide, overlay, arbitrate | any reading may fail or be nonsense; a plan may be anything | a lever stands on the answers it needs, the trail says what was missing, the model is confined |
| Stranded reservations (`application/usecases/stranded_reservation.go`, `domain/policy/stranded_reservation.go`) | per request: three readings | three readings, evaluate | the contexts change between readings; any reading may fail | a revoke is grounded in this request, a lasting case is seen, a hold is explained |
| Console dashboards (`application/usecases/console_reports*.go`, `adapters/outbound/restclient`) | per request: one goroutine and one slot per section, a WaitGroup | fan out, report, freshness, join | order of completion, hanging contexts, disconnects | each panel is its own context's, in place; latency does not grow with the number of slow contexts |
| Daily brief (`usecases/dailybrief.go`, `policy/dailybrief.go`) | per request | per path four reads, synthesize, rank | partial failure per path, stable ranking | every path once, under its site, with exactly its failed sources |
| Runtime signals (`usecases/runtime_signals.go`) | per request | per service, metrics and logs | sources down, zero traffic, NaN | a missing source is named, never read as healthy |
| Order lifecycle (`usecases/order_lifecycle.go`) | per request | four stages | a lookup per work unit may fail | a failed stage does not hide the others |
| Tool invoker and MCP sessions (`adapters/outbound/mcpclient`) | catalogue cache under a mutex | discover, allow-list, invoke | partial discovery, stale catalogue | nothing un-offered is invoked, a partial catalogue is never final |
| Composition root (`cmd/agent`) | the process: listener, requests in flight | load, wire or refuse, discover, serve, drain, flush | what fails at start-up, shutdown against requests in flight | a degraded start is visible, shutdown drains |
| REST and MCP adapters (`adapters/inbound`), travel factor | none | a route or a tool per use case, refusals, severity filter, report window, encoding | what was not wired, what cannot be encoded | the caller is answered what the use case found |
| Configuration (`internal/config`) | none | one loader per variable | overrides that are blank, unparseable or duplicated | a mistake never leaves an empty list |
| REST clients, observability | none | decoding, exporting | – | – |

Interaction: an inbound request calls exactly one use case. `FlowBalanceAdvisory`
calls the contexts in sequence, then (mode `shadow` or `on`) `Reasoner.Reason`,
which calls the model's API through the breaker and other contexts through
`ToolInvoker`. A breaker transition calls back into the gauge. `ConsoleReports`
is the one use case that runs its calls concurrently.

## 2. Modules and how they correspond to the code

| Module | Models | Proofs |
|---|---|---|
| `CircuitBreaker` | gobreaker as configured by `New`, with `ReadyToTrip` and the gauge hook of `breaker.go`; run by any number of concurrent callers | `CircuitBreakerProofs` |
| `Reasoner` | `Reason`, `processAssistantTurn`, `executeToolCall`, `call`, `retryingRequest`, `doRequest`, several callers at once, composed with `CircuitBreaker` by `INSTANCE` | `ReasonerProofs` |
| `FlowBalancePolicy` | the pure rules: `Decide`, `CorrelateUtilization`, `ValidatePlan`, `Arbitrate` | – |
| `FlowBalance` | `FlowBalanceAdvisory.Execute` over that policy | `FlowBalanceProofs` |
| `StrandedReservation` | `DetectStrandedReservation.Execute` and `Evaluate`, beside two contexts that go on changing | `StrandedReservationProofs` |
| `ConsoleReports` | `runSections` and `runSection` with the clients' timeout | `ConsoleReportsProofs` |
| `PartialReport` | **abstract**: what every degrading report promises, "degrade, never fail" | – |
| `DailyBrief` | `DailyBrief.Execute`, the rule of `policy/dailybrief.go`, the grouping and the ranking | `InboundProofs` |
| `RuntimeSignals` | the report of `usecases/runtime_signals.go` and its thresholds | `InboundProofs` |
| `OrderLifecycle` | the order lookup of the console | `InboundProofs` |
| `Inbound` | both driving adapters, composed with the three modules above; travel factor | `InboundProofs` |
| `Agent` | the life of the process: configuration, wiring, tool discovery, listener, signal, drain, exit | `AgentProofs` |
| `Lists` | the filter loop the loaders and the tools share (`Only`), and the sum of a table's first entries that a property needs (`Total`) | `ListLemmas` |
| `MC…` | instances of the above for TLC | – |

**CircuitBreaker.** gobreaker's `Execute` takes its mutex twice, before and after
the wrapped function; each critical section is an action (`Admit` or `Reject`,
`Complete`), so that other callers run in between. The library's generation
number is modelled by what it is for: `cohort` is the set of in-flight callers
admitted in the current generation. A result from outside the cohort is dropped. Expiry
times are countdowns, and an expired window or cooldown takes effect lazily in the
next critical section, as in the library (`CurrentState`). Whether an excluded
result gives its admission back depends on the library's version and is a constant,
`ProbeRefunds`, explored both ways. `failAge` is a history variable.

**Reasoner.** `run[c]` holds one call: the position in the code, the turn, the attempts
of this turn, the content block, the requests sent and the context. Every way out
of `retryingRequest` is an action: an answer, a permanent error, exhausted retries,
and a context dead before, during or between attempts (`Abandoned`, from three
places). The nested contexts (inbound, `Config.Timeout`, `CallTimeout`) are folded
into one that dies once, by deadline or by cancellation. Message content, the audit trail
and the back-off's length are left out: no branch depends on them. `openSends` is a history: what each
caller has sent since the breaker last opened.

**FlowBalancePolicy / FlowBalance.** Readings are records over small sets of values
on both sides of each threshold; `None` is Go's `nil` (an unwired client or a
failed call). One action per `gather*` method, one for the rejection of an unknown
action (`ParseRebalanceAction`), one for the advisory without a Reasoner and one with. The
prose of rationales is left out; whether an evidence entry exists, and for which
context, is kept (`EvidenceEntries`, `MissingSignals`). `Reason` is one step with its two
results, a plan or an error; `Reasoner` models what happens inside.

**StrandedReservation.** `leases`, `usable` and `reserved` are the two contexts
(external), which may change before, between and after the three readings. `since` is a
history of what they went through since the request: the properties compare the reply
with the world, not with the values `Execute` happens to hold. Bins are sets of reserved
units, so the blast radius is a cardinality, as `toBlastRadius` sums it.

**ConsoleReports.** One goroutine per section with the stages of `runSection`; the slice
and the WaitGroup are shared. A call succeeds, fails, or runs out of `HTTPTimeout`
ticks. `Tick` needs every goroutine to be waiting or done, because what
the process does itself takes no time against seconds of network.

**PartialReport.** A report has parts; each part is settled once, by an answer or by a
failure, and the report is handed out once, when all are settled, showing each part as its
source left it. Three detailed modules implement it, each with its own refinement
mapping: `ConsoleReports` (a part is a section, settled concurrently), `DailyBrief` (a part is a
source of a path target), `RuntimeSignals` (a part is Prometheus or Loki, the former settled by
the last of many queries).

**DailyBrief.** `Execute` walks the targets in order; each of the four readings
is an action that answers, and one that fails. A nil fact is a key missing from `fact`. The sites are
a list in the order they were met. `RankBySeverity` inserts the exceptions one after the other, each behind those at least as severe, as
the code's loop moves it; it is a recursive function, so that it can be proved about. `heard` is the history against which `PathsTrue` compares every path brief.

**RuntimeSignals.** One query to Loki, which answers its newest lines and at most `LogLimit`,
then up to three queries per service: the second one only for a service with requests. `NaN` is a
value that fails every comparison. The stub reader of an unset `PROMETHEUS_URL` answers no sample,
which sums to zero.

**OrderLifecycle.** The four `gather*` methods, the last once per work unit. Only a 404 of
order-management ends the lookup.

**Inbound.** Every HTTP route and MCP tool, in every deployment that leaves out clients or
use cases. The three reports run step by step inside; the use cases with modules of their own answer or
fail. The handlers share nothing, so one request in flight shows all of it. `Encodable` is what
`encoding/json` accepts: `writeJSON` has sent the status by then and drops the error.

**Agent.** An environment variable is reduced to what its loader tells apart. Discovery goes
through the upstreams in sorted order; each takes some time and answers or not, under the session's
timeout and the discovery's own. `Signal` before `signal.Notify` kills the process, after it starts the
shutdown. The listener is a goroutine of its own and may bind late, after the signal or even after
`Shutdown`. Of two targets with one path id the later one stays, so `ToPathTaskTypes` takes the greatest index that binds a path. `OfferTrue` says when an upstream
must be in the catalogue by the sum of what the upstreams before it take. The code is 0 or 1 as `run` returns, 2 when a signal killed the process. `took`, `accepted` and
`answered` are history.

## 3. The runs

| Run | Question | Bounds, and why they are enough |
|---|---|---|
| `breaker` | Does the breaker shed, probe and trip as it promises, and can its gauge be believed? | three callers (a late one, a probe, a rejected one at once), the code's own thresholds 5 / 10 / 1, at most 11 admissions per window (`WindowBound`: one beyond the volume threshold), window and cooldown of 2 ticks, symmetry on callers |
| `breaker_live` | Does it come back? | two callers, thresholds 2 and 3, so every cycle of trip, probe and recovery fits |
| `reasoner` | Do concurrent loops keep their budget, report every exit and use the breaker as it allows? | two callers, two turns of two attempts, one block before the last, thresholds 2 and 3 so that two callers can trip the breaker and probe it |
| `reasoner_live` | Does a Reason call always end? | the code's own six turns and three attempts; one caller, because the breaker never makes a caller wait for another |
| `flow_balance` | Is the decision grounded, the trail honest, the model confined, in all three modes? | every combination of readings on both sides of every threshold, failures of each context, an unknown wes action, plans on both sides of each validation rule |
| `stranded` | Is a revoke grounded, a lasting case seen, a hold explained, while the contexts change? | a known and an unknown task type, a unit of the SKU and one of another, usable stock at and above the threshold; at any moment the contexts may move to any of their states |
| `console` | Is each panel true and in place, is the latency that of two calls, does it return, does it implement `PartialReport`? | four sections (the larger dashboard), one unwired, two ticks per call |
| `inbound` | Whatever fails on the way, is each answer what the contexts said to this request, in its place and order, with exactly what is missing? | three paths of two sites, the first and the last of one site, so that grouping and ranking interleave; two services; a stuck-task count that need not be the length of its list; a Loki limit of 2 against stores of up to three lines; up to three work units, so that a failing lookup has one before and one after; report bounds on both sides of `Now`; every route, with and without its use case |
| `agent` | Does a process serve as configured or not at all, offer the tools it could discover, and stop honestly? | three upstreams (one before and one after a slow one), a session timeout of 2 and a discovery budget of 3 units of five seconds, as 10 s and 15 s in the code, so that two slow upstreams starve a third; two requests; every single mistake in an environment |

Each of `reasoner_honest`, `flow_balance_partial` and `runtime_nan` checks one statement of the
repository, and shows the code not keeping it:

1. `reasoner_honest`: ADR 0011 wants the breaker's counts to be an honest
   measure of the API. When the budget of a Reason call passes after the answer of
   one turn and before the request of the next (a slow *tool* call may have used it
   up), that request is refused locally, never sent, and counted as a failure of the API.
2. `flow_balance_partial`: the domain vision says that an unreachable context marks the
   decision partial and degrades it toward `hold`. The property is stated of the levers the rules pull. With wes
   recommending `ThrottleUpstream` or `ReassignLabor`, the path understaffed and fulfillment-execution
   unreachable, `decideLaborGap` returns `assign_labor`, not partial and without missing signals (that branch
   does not need the missing reading). It is the only branch of `Decide` that pulls a lever with a context unreachable.
3. `runtime_nan`: a comment of `runtime_signals.go` says that "a single service's missing telemetry
   never blocks the rest of the report". The quantile over a service without requests is NaN, which
   JSON cannot carry: the whole fleet's report is then answered 200 with an empty body.

### Observations

Smaller disagreements met while modelling; no run is spent on them.

- `arbitrate.go:46-47` says that the rules' `proposedHeads` respects `MaxProposedHeads`; it has no upper bound.
- The same sentence of the domain vision on a hold: wes finds the backlog healthy, tasks are stuck and workforce-management is
  unreachable; `decideHealthyBacklog` holds, but neither marks the decision partial nor lists the missing signal.
- `ubiquitous-language.md:23` says that a decision without evidence cannot occur; with no context
  reachable the evidence list is empty.
- `docs/docs/api-surface.md:28`: "any recent error log lifts a service to at least `warning`". The one Loki query is
  fleet-wide and limited to the newest lines: a noisy service hides the lines of a quiet one.
- `ports/order_lifecycle_clients.go:8-12` says that `ErrNotFound` is "never" a hard failure of the whole lookup; order-management's own ends it with 404.
- `mcpclient/session.go`, `New`: "the resulting client session is reused"; `connect` opens a fresh one per call, as its own comment says.
- A tool result without structured content decodes to zero facts, which look like an answer.
- An allow-list entry for an upstream nobody knows is ignored in silence; a malformed one stops the start.
- The MCP answer of the flow-balance exception leaves the utilization overlay out, the REST answer has it.
- A listener that cannot bind is only logged: the process stays, serves nobody and waits for a signal.

### Fairness

- `CircuitBreaker`: time passes, a started request returns (its context has a deadline),
  and someone keeps asking. `Recovers` supposes that requests stop failing and
  callers stop giving up. It holds for `ProbeRefunds = {TRUE}` only: in a
  library that keeps the admission of a cancelled probe, the only half-open
  slot is taken for ever, since a half-open state has no expiry.
- `Reasoner`: runnable code runs, deadlines fall, an MCP call gives up with its context.
  **The model's API is never assumed to answer.** Strong fairness on entering the breaker only undoes
  `WindowBound`, which can disable `Enter` until the window ends; the code has no such wait.
- `ConsoleReports`: the scheduler runs each goroutine, time passes, and `net/http` ends a
  call whose time is up or whose context is cancelled. No context has to answer.
- `Agent`: `run`'s own goroutine is scheduled and the clock runs; the flush ends when its time is up. No request,
  upstream or telemetry collector is assumed to answer, and the listener need not even come up.

## 4. What is proved

TLAPS proves every invariant and every action property that a passing run checks, and every refinement, for all values of the constants. What
remains with TLC is liveness.

### Assumptions

Each is named in the module that declares the constants, and TLC evaluates it in every run of that module.

- Settings are positive and callers finitely many: `ReasonerAssumption`, `BreakerSettings`, `BudgetAssumption`, `LogLimitAssumption`,
  `WindowAssumption` and those of `CircuitBreaker` and `ConsoleReports`.
- Inputs have the types Go gives them, and nothing more: `TargetsAssumption`, `TelemetryAssumption` (`NaN` is no number), `LookupAssumption`,
  `RequestAssumption`, `EnvironmentAssumption`; `nil` is distinct from any reading (`FlowBalance`).
- `ServicesAssumption`: the list of services is not empty, which is what `ConfigIsUsable` proves of `loadRuntimeSignalsServices`;
  `DefaultsAssumption`: the compiled-in defaults are not empty; `UpstreamsAssumption`: an upstream is listed once (the sessions are a map keyed by name).

### The theorems and their invariants

- **`CircuitBreakerProofs`**: `TypeOK`, `GaugeBoundsLoad`, `ShedsWhileOpen`, `ProbeDecides`,
  `TripsOnFreshFailures`. None is inductive. The invariant adds that a
  breaker value is *sound* (the gauge lags only until the first transition; the
  cohort is within the admissions of a half-open cycle and empty when open), that only callers inside
  `Execute` are in the cohort, and that the age of the oldest counted failure plus what is left of
  the window never exceeds the window. The last one is why no old failure can trip it.
- **`ReasonerProofs`**: `EveryExitReports`, `RequestsBounded`, and `BreakerRefined`, that the loop implements
  `CircuitBreaker!Spec`. The invariant says that requests sent are at most
  `turn * MaxAttempts + tries`, that a caller about to attempt has an attempt left, and that a new turn starts with none used. For the
  refinement each step of a loop is mapped to `Admit`, `Reject`, `Complete`, `Tick` or a stutter.
  The module then takes the breaker's theorems over by `INSTANCE CircuitBreakerProofs`: `BreakerPromisesHold` (gauge, shedding, probes and fresh
  failures, of the breaker the loops share) and `TypeOK`. `OpenLoadBounded` rests on `SendsInv`: what a caller inside `Execute` has sent since the breaker
  opened is within the attempts of its present turn, and the caller that tripped it is outside and has sent nothing. `CancelBlamesNobody` is an action property: of
  the ways out of `Execute`, only an answer of the API adds a failure, or opens the breaker and so clears the count, for a cancelled context.
- **`FlowBalanceProofs`**: `TypeOK`, `LeverJustified`, `ModelConfined`, `UntrustedActionStops`, `AgreementHonest`, for all sets of readings and plans and
  all thresholds. The invariant follows `Execute`: at each position what it holds is what it was
  answered in this request, and a decision made is grounded in those answers. `TrailMatchesAnswers` needs the trail to be right as soon as there is a decision (`TrailInv`), and
  that utilization is asked about last, so that the overlay's evidence comes behind the others'.
- **`StrandedReservationProofs`**: `TypeOK`, `RevokeGrounded`, `StrandedIsSeen`, `HoldExplained`. None but the first is inductive: while
  the readings are gathered one must know that each was true of its context at some moment
  since the request, and that the history contains the present; an explained hold needs that a reply's
  trail is the one `Evaluate` made of the very inputs that are held.
- **`ConsoleReportsProofs`**: `TypeOK`, `PanelsTrue`, `LatencyBounded`, for any number of sections. The
  invariant says what the local section is at each stage, that elapsed time plus the
  time left to a call fits the bound of its stage, and that the WaitGroup counts the goroutines that have not ended.
  `DashboardDegrades` follows: a section settles when its goroutine ends, the join hands out.
- **`InboundProofs`**: each use case is proved about alone (`BriefSpec`, `RuntimeSpec`, `LifecycleSpec`), and the adapters are shown to take its steps or leave it
  alone (`ServesBrief`, `ServesRuntimeSignals`, `ServesLookup`), so that it holds of what is served.
  - *Daily brief.* `BriefDegrades` and `PathsTrue` for any list of targets and any wiring: what is held of the present target is what its own contexts answered
    (`AtHand`), the path briefs already made carry exactly their targets' facts and failed sources (`Shown`), nothing was heard yet of the targets to come, and the sites
    are the targets met so far, grouped by site in the order they were met (`Grouped`).
    `ExceptionsRanked` is the correctness of the code's insertion sort: before the ranking `open` is the exceptions of the targets met so far in their order, and the
    prefix already inserted is a list of criticals followed by a list of warnings, each in the order of the targets (`EInv`, `RankedUpTo`).
  - *Runtime signals.* `SignalsDegrade`: `telemetryFailed` is raised exactly when some query of some service failed, and no answer is overwritten.
    `SignalsTrue` adds `SInv`: each service already reported has the grade of its own answers, the one being queried holds the samples asked for it and no other,
    and a service has error lines counted exactly when one of the `LogLimit` newest lines Loki holds is its own.
  - *Order lookup.* `LifecycleTrue`: the work units shown are those that were answered, and the tasks held are those of the work units passed whose lookup answered, concatenated in order (`TasksHeld`).
  - *Replies.* `RepliesTrue`: the filtered list of exceptions is the whole list, or its criticals, which the ranking puts first; 404 is order-management's word; a window that is
    answered is a window. A reply is final, so it is enough that each is true when it is given.
- **`AgentProofs`**: `CleanExit`, `ModeHonest`, `OfferTrue`, `ConfigUsable`.
  The first invariant says that accepted requests are in flight or answered and that a listener is open only before
  the drain; a listener that comes up after the signal is why the phase it starts in matters. `OfferTrue` rests on `DInv`, an account of the discovery: the upstreams passed
  that have a session were asked, each that answered in time is in the catalogue, and the time left plus what they took is at least the budget. `ConfigUsable` says what
  the loaders return for every environment.
- **`ListLemmas`**: the lemmas about lists these rest on. The provers cannot use an induction principle that takes a predicate, so the module proves the
  first-order form, that a set of naturals which holds 0 and every successor holds all of them, from the well-foundedness of `<`; for lists likewise. A recursive
  definition is then characterised by a *walk* (a function from 0 up to the length that starts and steps as the definition does), shown to exist and to be unique. From that follow what `FlattenSeq`,
  `Only`, `Total` and `RankBySeverity` do with one entry more.

**Only model-checked**: liveness (`Recovers`, `ReasonEnds`, `DashboardReturns`, `MovesOn`: fairness and
`ENABLED` are out of the prover's reach), and the formulas of the three runs that show a divergence, which are false of the code.

Each property has a mutant in `PROJECT.json`: a plausible mistake in one mapped definition that makes
TLC find the property violated. The mutated forms stand before the definition
they replace, under a `Mutant:` comment, and no specification uses them.

## 5. What is not modelled, and why

- The summing of report rows into series (`console_reports_wms.go`, `console_reports_wes.go`) and the decoding of each REST
  report: arithmetic and field mapping without a branch the properties see.
- Observability: exporter set-up and log bridging. The gauge's value is part of `CircuitBreaker`, the bounded flush of `Agent`.
- `RangeQuery` of the telemetry reader: nothing calls it.
- Fields of the DTOs that no property reads, HTTP middleware and spans.
- The MCP SDK, `net/http`, Prometheus and Loki: external; their failures appear as failed calls.
- The content of prompts, answers, rationales and evidence texts, and the reasoner's audit trail of tool calls. Of `ToolInvoker.Invoke`
  the condition under which a call reaches an upstream is modelled, not its result. `Specs` has one caller, at
  start-up, so its mutex and its cache are never contended and never read again.
- Plain strings of the configuration (addresses, URLs).
- `StrandedReservation` does not say whose the freed units are: the code sums every reservation of
  the SKU in the bin, and the bin's answer does not tell them apart.
- Two requests at once outside the reasoner: they share only the breaker, and `Reasoner` has several callers.

## 6. What is left

1. The step lemmas under the liveness properties: that the discovery's and the drain's measure falls with every step of the process, as
   action properties the prover can reach, beside `MovesOn` and `DashboardReturns`.
2. The utilization overlay as a property of its own: its outcome on both sides of each threshold.
3. The reasoner's walk over content blocks with its audit trail, composed with `Agent`'s catalogue, so that "nothing un-offered is
   invoked" is stated of a whole conversation.
