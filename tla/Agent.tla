------------------------------- MODULE Agent -------------------------------
(***************************************************************************)
(* The life of the process (cmd/agent/main.go, cmd/agent/reasoner.go): it  *)
(* reads its configuration from the environment (internal/config), wires   *)
(* the model-backed reasoner or refuses to start, discovers the tools the  *)
(* reasoner may call (internal/adapters/outbound/mcpclient), serves until  *)
(* a signal, drains and exits.                                             *)
(*                                                                         *)
(* An environment variable is reduced to what its loader tells apart.  The *)
(* entry of a list is the sequence of its non-empty parts: <<>> is blank,  *)
(* <<upstream, tool>> is what an allow-list entry should be.  Time is      *)
(* counted in units of five seconds.                                       *)
(***************************************************************************)
EXTENDS Integers, FiniteSets, FiniteSetsExt, Lists

CONSTANTS
    Environments,      \* the environments a process may be started in
    Upstreams,         \* the reasoner's upstreams, in sort.Strings' order
    Published,         \* the tools each upstream publishes
    DefaultAllowList,  \* defaultLLMToolAllowList
    DefaultTargets,    \* defaultPathTargets
    DefaultServices,   \* defaultRuntimeSignalsServices
    DefaultTimeout,    \* the LLM_TIMEOUT default
    SessionTimeout,    \* what one listTools may take
    DiscoverBudget,    \* what the whole discovery may take
    DrainBudget,       \* what Shutdown waits for requests in flight
    FlushBudget,       \* what the telemetry flush may take
    MaxRequests        \* bound: requests a process is sent

ASSUME DefaultsAssumption ==
    /\ DefaultAllowList # <<>> /\ DefaultTargets # <<>> /\ DefaultServices # <<>>
    /\ DefaultTargets \in Seq([pathId : STRING, processPath : STRING])
    /\ DefaultTimeout \in Nat \ {0}

\* What the loaders are given, whatever the operator wrote.
ASSUME EnvironmentAssumption ==
    Environments \subseteq
        [mode : STRING, key : BOOLEAN, timeout : Int, allow : Seq(Seq(STRING)),
         targets : [parses : BOOLEAN, list : Seq([pathId : STRING, processPath : STRING])],
         services : Seq(Seq(STRING)), endpoints : SUBSET STRING]

\* The sessions are keyed by the upstream's name.
ASSUME UpstreamsAssumption ==
    /\ Upstreams \in Seq(STRING)
    /\ \A i, j \in DOMAIN Upstreams : Upstreams[i] = Upstreams[j] => i = j

ASSUME BudgetAssumption ==
    /\ SessionTimeout \in Nat \ {0} /\ DiscoverBudget \in Nat \ {0}
    /\ DrainBudget \in Nat \ {0} /\ FlushBudget \in Nat \ {0}
    /\ MaxRequests \in Nat

VARIABLES
    phase,     \* where run and serveAgent are
    env,       \* the environment
    cfg,       \* config.Config as loaded
    llm,       \* [mode, wired]: fb.LLMMode and whether fb.Reasoner is set
    at,        \* the upstream discovery is at
    left,      \* what is left of the running timeout
    took,      \* history: what each upstream takes to list its tools
    offered,   \* fb.ReasonerTools
    listener,  \* the listener goroutine
    inflight,  \* requests being served
    accepted,  \* requests accepted
    answered,  \* requests answered
    code       \* the exit code, <<>> while the process runs

wiring == <<env, cfg, llm>>
discovery == <<at, took, offered>>
serving == <<listener, inflight, accepted, answered>>
vars == <<phase, wiring, discovery, left, serving, code>>

-----------------------------------------------------------------------------
(* internal/config: every loader falls back rather than fail.              *)

Blank == <<>>

\* Mutant: an override of blanks only yields an empty list.
LoadListVerbatim(raw, fallback) ==
    IF raw = <<>> THEN fallback ELSE Only(raw, ToSet(raw) \ {Blank})

\* loadList: blanks are dropped; an override with nothing else falls back.
LoadList(raw, fallback) ==
    LET out == Only(raw, ToSet(raw) \ {Blank})
    IN  IF out = <<>> THEN fallback ELSE out

LoadRuntimeSignalsServices(raw) == LoadList(raw, DefaultServices)

\* loadPathTargets: unset, unparseable and empty fall back.
LoadPathTargets(raw) ==
    IF raw.parses /\ raw.list # <<>> THEN raw.list ELSE DefaultTargets

\* loadDuration: unset, unparseable and not positive are all 0 or less.
LoadDuration(raw, fallback) == IF raw <= 0 THEN fallback ELSE raw

Load(e) ==
    [mode |-> IF e.mode = "" THEN "off" ELSE e.mode,
     key |-> e.key,
     timeout |-> LoadDuration(e.timeout, DefaultTimeout),
     allow |-> LoadList(e.allow, DefaultAllowList),
     targets |-> LoadPathTargets(e.targets),
     services |-> LoadRuntimeSignalsServices(e.services),
     endpoints |-> e.endpoints]

\* toPathTaskTypes: of two targets with one path id, the later one stays.
Binding(t) == t.pathId # "" /\ t.processPath # ""
ToPathTaskTypes(targets) ==
    LET bound == {i \in DOMAIN targets : Binding(targets[i])}
    IN  [p \in {targets[i].pathId : i \in bound} |->
            targets[Max({i \in bound : targets[i].pathId = p})].processPath]

-----------------------------------------------------------------------------
(* Starting.                                                               *)

NoConfig == <<>>

Init ==
    /\ phase = "boot" /\ env \in Environments /\ cfg = NoConfig
    /\ llm = [mode |-> "off", wired |-> FALSE]
    /\ at = 0 /\ left = 0 /\ offered = {} /\ took = <<>>
    /\ listener = "none" /\ inflight = 0 /\ accepted = 0 /\ answered = 0
    /\ code = <<>>

\* A degraded telemetry set-up is logged and the start goes on.
LoadConfig ==
    /\ phase = "boot"
    /\ phase' = "wire" /\ cfg' = Load(env)
    /\ UNCHANGED <<env, llm, discovery, left, serving, code>>

\* run returns an error: the deferred flush runs, then the process exits 1.
Refuse == phase' = "flush" /\ left' = FlushBudget /\ code' = <<1>>

Modes == {"off", "shadow", "on"}

\* wireReasoner: strings.Cut finds no "/", or nothing on a side of it.
Malformed(entry) == Len(entry) # 2

\* Mutant: a missing key is left for the first call to find.
WireableWithoutKey ==
    /\ cfg.mode \in Modes \ {"off"}
    /\ \A i \in DOMAIN cfg.allow : ~Malformed(cfg.allow[i])

\* wireReasoner up to discovery: nothing the configuration says is dropped.
Wireable ==
    /\ cfg.mode \in Modes \ {"off"} /\ cfg.key
    /\ \A i \in DOMAIN cfg.allow : ~Malformed(cfg.allow[i])

WireOff ==
    /\ phase = "wire" /\ cfg.mode = "off"
    /\ phase' = "mount"
    /\ UNCHANGED <<wiring, discovery, left, serving, code>>

RefuseStart ==
    /\ phase = "wire" /\ cfg.mode # "off" /\ ~Wireable
    /\ Refuse
    /\ UNCHANGED <<wiring, discovery, serving>>

\* The arbitration metrics cannot be registered.
RefuseMetrics ==
    /\ phase = "wire" /\ Wireable
    /\ Refuse
    /\ UNCHANGED <<wiring, discovery, serving>>

StartDiscovery ==
    /\ phase = "wire" /\ Wireable
    /\ phase' = "discover" /\ at' = 1 /\ left' = DiscoverBudget
    /\ UNCHANGED <<wiring, took, offered, serving, code>>

-----------------------------------------------------------------------------
(* ToolInvoker.                                                            *)

\* NewToolInvoker: an upstream without an endpoint has no session.
Sessions == {u \in ToSet(Upstreams) : u \in cfg.endpoints}
Allowed(u) == {e[2] : e \in {f \in ToSet(cfg.allow) : f[1] = u}}

\* Invoke reaches an upstream only for one of its allow-listed tools.
Invocable(u, t) == u \in Sessions /\ t \in Allowed(u)

Least(a, b) == IF a < b THEN a ELSE b

\* The history once u has taken d.
Timed(u, d, answers) ==
    [v \in DOMAIN took \cup {u} |->
        IF v = u THEN [time |-> d, answers |-> answers] ELSE took[v]]

\* Mutant: the discovery gives up at the first upstream that fails.
ListToolsOrStop(u, d, answers) ==
    LET wait == Least(SessionTimeout, left)
        ok   == answers /\ d < wait
    IN  /\ left' = left - Least(d, wait)
        /\ took' = Timed(u, d, answers)
        /\ at' = IF ok THEN at + 1 ELSE Len(Upstreams) + 1
        /\ offered' = IF ok THEN offered \cup {<<u, t>> : t \in Published[u] \cap Allowed(u)}
                            ELSE offered

\* listTools(u), which answers or fails after d, unless the session's timeout
\* or the discovery's comes first; an upstream that fails is skipped.
ListTools(u, d, answers) ==
    LET wait == Least(SessionTimeout, left)
        ok   == answers /\ d < wait
    IN  /\ left' = left - Least(d, wait)
        /\ took' = Timed(u, d, answers)
        /\ at' = at + 1
        /\ offered' = IF ok THEN offered \cup {<<u, t>> : t \in Published[u] \cap Allowed(u)}
                            ELSE offered

Discover ==
    /\ phase = "discover" /\ at <= Len(Upstreams)
    /\ LET u == Upstreams[at]
       IN  \/ /\ u \notin Sessions
              /\ at' = at + 1 /\ UNCHANGED <<left, took, offered>>
           \/ /\ u \in Sessions
              /\ \E d \in 0..SessionTimeout, answers \in BOOLEAN : ListTools(u, d, answers)
    /\ UNCHANGED <<phase, wiring, serving, code>>

\* The catalogue is never asked for again.
WireLLM ==
    /\ phase = "discover" /\ at > Len(Upstreams)
    /\ phase' = "mount" /\ llm' = [mode |-> cfg.mode, wired |-> TRUE]
    /\ UNCHANGED <<env, cfg, discovery, left, serving, code>>

-----------------------------------------------------------------------------
(* serveAgent: the listener goroutine, the signal and the shutdown.        *)

StartListener ==
    /\ phase = "mount" /\ phase' = "mounted"
    /\ listener' = "starting"
    /\ UNCHANGED <<wiring, discovery, left, inflight, accepted, answered, code>>

\* ListenAndServe; after Shutdown it returns without listening.
Listen ==
    /\ listener = "starting" /\ phase # "exited"
    /\ listener' = IF phase \in {"mounted", "serving", "signalled"} THEN "open" ELSE "closed"
    /\ UNCHANGED <<phase, wiring, discovery, left, inflight, accepted, answered, code>>

\* The address cannot be bound: logged, and the process stays.
ListenFails ==
    /\ listener = "starting" /\ phase # "exited"
    /\ listener' = "failed"
    /\ UNCHANGED <<phase, wiring, discovery, left, inflight, accepted, answered, code>>

Notify ==
    /\ phase = "mounted" /\ phase' = "serving"
    /\ UNCHANGED <<wiring, discovery, left, serving, code>>

\* SIGINT or SIGTERM: before Notify it kills the process, after it stops the
\* serving; a second one stays in the channel.
Signal ==
    /\ \/ /\ \/ phase \in {"boot", "wire", "discover", "mount", "mounted"}
             \/ phase = "flush" /\ listener = "none"
          /\ phase' = "exited" /\ code' = <<2>>
       \/ /\ phase = "serving"
          /\ phase' = "signalled" /\ UNCHANGED code
    /\ UNCHANGED <<wiring, discovery, left, serving>>

Accept ==
    /\ listener = "open" /\ phase # "exited" /\ accepted < MaxRequests
    /\ accepted' = accepted + 1 /\ inflight' = inflight + 1
    /\ UNCHANGED <<phase, wiring, discovery, left, listener, answered, code>>

Complete ==
    /\ inflight > 0 /\ phase # "exited"
    /\ inflight' = inflight - 1 /\ answered' = answered + 1
    /\ UNCHANGED <<phase, wiring, discovery, left, listener, accepted, code>>

\* Shutdown closes the listener first.
Shutdown ==
    /\ phase = "signalled" /\ phase' = "draining"
    /\ listener' = IF listener = "open" THEN "closed" ELSE listener
    /\ left' = DrainBudget
    /\ UNCHANGED <<wiring, discovery, inflight, accepted, answered, code>>

\* Mutant: Shutdown returns at once.
DrainedAnyway ==
    /\ phase = "draining"
    /\ phase' = "flush" /\ left' = FlushBudget /\ code' = <<0>>
    /\ UNCHANGED <<wiring, discovery, serving>>

Drained ==
    /\ phase = "draining" /\ inflight = 0
    /\ phase' = "flush" /\ left' = FlushBudget /\ code' = <<0>>
    /\ UNCHANGED <<wiring, discovery, serving>>

\* Mutant: Shutdown with a context that has no deadline.
TickWithoutDeadline ==
    /\ phase \in {"draining", "flush"} /\ left > 0
    /\ left' = IF phase = "draining" THEN DrainBudget ELSE left - 1
    /\ UNCHANGED <<phase, wiring, discovery, serving, code>>

\* Five seconds of the running timeout pass.
Tick ==
    /\ phase \in {"draining", "flush"} /\ left > 0
    /\ left' = left - 1
    /\ UNCHANGED <<phase, wiring, discovery, serving, code>>

\* Requests are still in flight: run returns the context's error.
DrainTimeout ==
    /\ phase = "draining" /\ left = 0
    /\ Refuse
    /\ UNCHANGED <<wiring, discovery, serving>>

\* The deferred telemetry shutdown, done or out of time.
Exit ==
    /\ phase = "flush"
    /\ phase' = "exited"
    /\ UNCHANGED <<wiring, discovery, left, serving, code>>

Exited == phase = "exited" /\ UNCHANGED vars

Process ==
    \/ LoadConfig \/ WireOff \/ RefuseStart \/ RefuseMetrics \/ StartDiscovery
    \/ Discover \/ WireLLM \/ StartListener \/ Notify
    \/ Shutdown \/ Drained \/ DrainTimeout
Goroutines == Listen \/ ListenFails \/ Accept \/ Complete
Next == Process \/ Goroutines \/ Signal \/ Tick \/ Exit \/ Exited

Spec == Init /\ [][Next]_vars

\* run's own goroutine is scheduled and the clock runs; neither a request nor
\* the telemetry collector need ever answer.
LiveSpec == Spec /\ WF_vars(Process) /\ WF_vars(Tick) /\ WF_vars(Exit /\ left = 0)

-----------------------------------------------------------------------------
(* What starting and stopping promise.                                     *)

\* What listing the tools of the n-th upstream takes, asked or not.
Takes(n) == IF Upstreams[n] \in DOMAIN took THEN took[Upstreams[n]].time ELSE 0

\* What the upstreams asked before the n-th may have used of the discovery's time.
Before(n) == Total([i \in DOMAIN Upstreams |-> Takes(i)], n - 1)

\* Specs, Invoke: the model is offered only tools Invoke accepts, and all
\* those an upstream published that answered in time: whatever the other
\* upstreams do, it misses the catalogue only when those asked before it,
\* each held to the session's timeout, used up the discovery's.
OfferTrue ==
    llm.wired =>
        /\ \A o \in offered : Invocable(o[1], o[2])
        /\ \A n \in DOMAIN Upstreams :
               LET u == Upstreams[n] IN
               u \in Sessions =>
                   /\ u \in DOMAIN took
                   /\ /\ took[u].answers /\ took[u].time < SessionTimeout
                      /\ Before(n) + took[u].time < DiscoverBudget
                      => \A t \in Published[u] : Invocable(u, t) => <<u, t>> \in offered

\* wireReasoner: "a misconfigured cluster can never quietly run without the
\* model it was told to use"; a process that serves has the mode it was told,
\* and the reasoner exactly when that is not off.
ModeHonest ==
    phase \in {"serving", "signalled", "draining"} =>
        IF env.mode \in {"", "off"} THEN ~llm.wired
        ELSE /\ env.mode \in {"shadow", "on"} /\ env.key
             /\ llm = [mode |-> env.mode, wired |-> TRUE]

\* The loaders of internal/config: an operator's mistake "must never silently
\* produce an empty (and therefore useless) daily brief", report or tool
\* surface, and an override that says something is taken whole; the advisory
\* then reads a path's task type from the target the brief uses for it.
ConfigUsable ==
    cfg # NoConfig =>
        /\ cfg.allow # <<>> /\ cfg.targets # <<>> /\ cfg.services # <<>> /\ cfg.timeout > 0
        /\ LET said == ToSet(env.allow) \ {Blank}
           IN  said # {} => ToSet(cfg.allow) = said
        /\ \A i \in DOMAIN cfg.targets :
               LET t == cfg.targets[i] IN
               Binding(t) /\ (\A j \in DOMAIN cfg.targets : cfg.targets[j].pathId = t.pathId => j = i)
                   => ToPathTaskTypes(cfg.targets)[t.pathId] = t.processPath

\* serveAgent: a process that says it stopped cleanly has answered every
\* request it accepted, whenever the signal came.
CleanExit == code = <<0>> => answered = accepted

\* run, serveAgent: a start ends in serving or in an exit, whatever upstreams
\* hang; a signal ends in an exit, whatever request or collector hangs.
MovesOn ==
    /\ <>(phase \in {"serving", "exited"})
    /\ phase = "signalled" ~> phase = "exited"
=============================================================================
