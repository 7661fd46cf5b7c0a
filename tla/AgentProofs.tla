---------------------------- MODULE AgentProofs ----------------------------
(***************************************************************************)
(* What starting and stopping promise, for every environment, every set of *)
(* upstreams and every timeout.  CleanExit needs to know that no request   *)
(* is accepted once Shutdown has begun, which is a fact about the listener *)
(* goroutine, still starting perhaps when the signal comes.  ModeHonest    *)
(* needs what wireReasoner knew at each of its early returns, OfferTrue an *)
(* account of the discovery's time, ConfigUsable what the loaders return.  *)
(***************************************************************************)
EXTENDS Agent, ListLemmas

Starting == {"boot", "wire", "discover", "mount"}
Phases == Starting \cup {"mounted", "serving", "signalled", "draining", "flush", "exited"}

\* The process as the code's control flow leaves it.
Shapes ==
    /\ phase \in Phases
    /\ listener \in {"none", "starting", "open", "closed", "failed"}
    /\ inflight \in Nat /\ accepted \in Nat /\ answered \in Nat
    /\ code \in {<<>>, <<0>>, <<1>>, <<2>>}

-----------------------------------------------------------------------------
(* Stopping.                                                               *)

\* Every accepted request is in flight or answered; none can be accepted
\* before the listener is up or once Shutdown has begun.
Drains ==
    /\ accepted = answered + inflight
    /\ phase \in Starting => listener = "none"
    /\ phase \notin {"flush", "exited"} => code = <<>>
    /\ phase = "draining" => listener # "open"
    /\ code = <<0>> => inflight = 0 /\ listener # "open" /\ phase \in {"flush", "exited"}

IInv == Shapes /\ Drains

\* The exit codes are different.
LEMMA Codes ==
    /\ <<0>> # <<>> /\ <<1>> # <<>> /\ <<2>> # <<>>
    /\ <<1>> # <<0>> /\ <<2>> # <<0>>
  OBVIOUS

\* run up to the listener: nothing is served.
LEMMA StartKeeps ==
    ASSUME IInv,
           \/ LoadConfig \/ WireOff \/ RefuseStart \/ RefuseMetrics \/ StartDiscovery
           \/ Discover \/ WireLLM
    PROVE  IInv'
  <1>1. phase \in Starting /\ UNCHANGED serving
    BY DEF LoadConfig, WireOff, RefuseStart, RefuseMetrics, StartDiscovery, Discover,
       WireLLM, Starting
  <1>2. \/ phase' \in Starting /\ code' = code
        \/ phase' = "flush" /\ code' = <<1>>
    BY <1>1 DEF LoadConfig, WireOff, RefuseStart, RefuseMetrics, StartDiscovery, Discover,
       WireLLM, Refuse, Starting
  <1>3. CASE phase' \in Starting /\ code' = code
    BY <1>1, <1>3, Codes DEF IInv, Shapes, Drains, serving, Starting, Phases
  <1>4. CASE phase' = "flush" /\ code' = <<1>>
    BY <1>1, <1>4, Codes DEF IInv, Shapes, Drains, serving, Starting, Phases
  <1> QED
    BY <1>2, <1>3, <1>4

\* serveAgent up to the signal, and the listener goroutine beside it.
LEMMA ServeKeeps ==
    ASSUME IInv, StartListener \/ Notify \/ Listen \/ ListenFails \/ Accept \/ Complete
    PROVE  IInv'
  <1> USE DEF IInv, Shapes, Drains, Starting, Phases
  <1>1. CASE StartListener
    BY <1>1, Codes DEF StartListener
  <1>2. CASE Notify
    BY <1>2, Codes DEF Notify, serving
  <1>3. CASE Listen
    BY <1>3, Codes DEF Listen
  <1>4. CASE ListenFails
    BY <1>4, Codes DEF ListenFails
  <1>5. CASE Accept
    BY <1>5, Codes DEF Accept
  <1>6. CASE Complete
    BY <1>6, Codes DEF Complete
  <1> QED
    BY <1>1, <1>2, <1>3, <1>4, <1>5, <1>6

\* The signal, the drain and the exit.
LEMMA StopKeeps ==
    ASSUME IInv, Signal \/ Shutdown \/ Drained \/ DrainTimeout \/ Tick \/ Exit
    PROVE  IInv'
  <1> USE DEF IInv, Shapes, Drains, Starting, Phases
  <1>1. CASE Signal
    BY <1>1, Codes DEF Signal, serving
  <1>2. CASE Shutdown
    BY <1>2, Codes DEF Shutdown
  <1>3. CASE Drained
    BY <1>3, Codes DEF Drained, serving
  <1>4. CASE DrainTimeout
    BY <1>4, Codes DEF DrainTimeout, Refuse, serving
  <1>5. CASE Tick
    BY <1>5, Codes DEF Tick, serving
  <1>6. CASE Exit
    BY <1>6, Codes DEF Exit, serving
  <1> QED
    BY <1>1, <1>2, <1>3, <1>4, <1>5, <1>6

\* run, serveAgent: every request accepted is in flight or answered, and none
\* is accepted once the drain has begun.
THEOREM Invariance == Spec => []IInv
  <1>1. Init => IInv
    BY Codes DEF Init, IInv, Shapes, Drains, Starting, Phases
  <1>2. IInv /\ [Next]_vars => IInv'
    <2> SUFFICES ASSUME IInv, [Next]_vars PROVE IInv'
      OBVIOUS
    <2>1. CASE UNCHANGED vars
      BY <2>1 DEF IInv, Shapes, Drains, vars, serving
    <2> QED
      BY <2>1, StartKeeps, ServeKeeps, StopKeeps DEF Next, Process, Goroutines, Exited
  <1> QED
    BY <1>1, <1>2, PTL DEF Spec

\* serveAgent: whenever the signal comes and however many requests there are,
\* a process that exits 0 has answered all it accepted.
THEOREM ExitsClean == Spec => []CleanExit
  <1>1. IInv => CleanExit
    BY DEF IInv, Shapes, Drains, CleanExit
  <1> QED
    BY <1>1, Invariance, PTL

-----------------------------------------------------------------------------
(* Starting.                                                               *)

Off == llm = [mode |-> "off", wired |-> FALSE]

\* What the process was told, and what it has.
AsTold ==
    IF env.mode \in {"", "off"} THEN ~llm.wired
    ELSE /\ env.mode \in {"shadow", "on"} /\ env.key
         /\ llm = [mode |-> env.mode, wired |-> TRUE]

WiresAsTold ==
    /\ phase \in {"boot", "wire", "discover"} => Off
    /\ phase = "wire" => cfg = Load(env)
    /\ phase = "discover" => cfg = Load(env) /\ Wireable
    /\ phase \in {"mount", "mounted", "serving", "signalled", "draining"} => AsTold

\* Load: the mode is the one in the environment, "off" when there is none.
LEMMA LoadedMode ==
    ASSUME cfg = Load(env)
    PROVE  /\ cfg.mode = (IF env.mode = "" THEN "off" ELSE env.mode)
           /\ cfg.key = env.key
  BY DEF Load

\* wireReasoner: each way it returns leaves the reasoner as the mode asks.
LEMMA WiringKeeps ==
    ASSUME WiresAsTold,
           \/ LoadConfig \/ WireOff \/ RefuseStart \/ RefuseMetrics \/ StartDiscovery
           \/ Discover \/ WireLLM
    PROVE  WiresAsTold'
  <1>1. CASE LoadConfig
    BY <1>1 DEF LoadConfig, WiresAsTold, Off
  <1>2. CASE WireOff
    <2>0. cfg = Load(env) /\ cfg.mode = "off" /\ Off
      BY <1>2 DEF WireOff, WiresAsTold
    <2>1. env.mode \in {"", "off"} /\ llm.wired = FALSE
      <3>1. cfg.mode = (IF env.mode = "" THEN "off" ELSE env.mode)
        BY <2>0, LoadedMode
      <3>2. env.mode = "" \/ env.mode = "off"
        BY <2>0, <3>1
      <3>3. llm.wired = FALSE
        BY <2>0 DEF Off
      <3> QED
        BY <3>2, <3>3
    <2>2. phase' = "mount" /\ env' = env /\ llm' = llm
      BY <1>2 DEF WireOff, wiring
    <2>3. ~llm'.wired
      BY <2>1, <2>2
    <2>4. AsTold'
      BY <2>1, <2>2, <2>3 DEF AsTold
    <2> QED
      BY <2>2, <2>4 DEF WiresAsTold
  <1>3. CASE RefuseStart \/ RefuseMetrics
    BY <1>3 DEF RefuseStart, RefuseMetrics, Refuse, WiresAsTold
  <1>4. CASE StartDiscovery
    <2>1. phase' = "discover" /\ UNCHANGED wiring /\ cfg = Load(env) /\ Wireable /\ Off
      BY <1>4 DEF StartDiscovery, WiresAsTold
    <2>2. Wireable' /\ Off' /\ (cfg = Load(env))'
      BY <2>1 DEF Wireable, Off, wiring, Malformed, Modes, Load
    <2> QED
      BY <2>1, <2>2 DEF WiresAsTold
  <1>5. CASE Discover
    <2>1. phase' = "discover" /\ UNCHANGED wiring /\ cfg = Load(env) /\ Wireable /\ Off
      BY <1>5 DEF Discover, WiresAsTold
    <2>2. Wireable' /\ Off' /\ (cfg = Load(env))'
      BY <2>1 DEF Wireable, Off, wiring, Malformed, Modes, Load
    <2> QED
      BY <2>1, <2>2 DEF WiresAsTold
  <1>6. CASE WireLLM
    <2>1. /\ phase' = "mount" /\ env' = env
          /\ llm' = [mode |-> cfg.mode, wired |-> TRUE]
          /\ cfg = Load(env) /\ Wireable
      BY <1>6 DEF WireLLM, WiresAsTold
    <2>2. cfg.mode = env.mode /\ env.mode \in {"shadow", "on"} /\ env.key
      BY <2>1, LoadedMode DEF Wireable, Modes
    <2> QED
      BY <2>1, <2>2 DEF WiresAsTold, AsTold
  <1> QED
    BY <1>1, <1>2, <1>3, <1>4, <1>5, <1>6

\* Nothing after the start changes what was wired.
LEMMA WiringStays ==
    ASSUME IInv, WiresAsTold,
           \/ StartListener \/ Notify \/ Goroutines \/ Signal \/ Shutdown \/ Drained
           \/ DrainTimeout \/ Tick \/ Exit \/ Exited \/ UNCHANGED vars
    PROVE  WiresAsTold'
  <1> DEFINE Up == {"mount", "mounted", "serving", "signalled", "draining"}
  <1>1. UNCHANGED wiring
    BY DEF StartListener, Notify, Goroutines, Listen, ListenFails, Accept, Complete, Signal,
       Shutdown, Drained, DrainTimeout, Tick, Exit, Exited, vars
  <1>2. \/ phase' = phase
        \/ phase \in Up /\ phase' \in Up
        \/ phase' \in {"flush", "exited"}
    BY DEF StartListener, Notify, Goroutines, Listen, ListenFails, Accept, Complete, Signal,
       Shutdown, Drained, DrainTimeout, Tick, Exit, Exited, Refuse, vars
  <1>3. /\ AsTold => AsTold'
        /\ Off => Off'
        /\ cfg = Load(env) => (cfg = Load(env))'
        /\ Wireable => Wireable'
    BY <1>1 DEF wiring, AsTold, Off, Load, Wireable, Modes, Malformed
  <1> QED
    BY <1>2, <1>3 DEF WiresAsTold

\* wireReasoner: for every environment, a process that serves has the mode it
\* was told and the reasoner exactly when that is not off.
THEOREM ModeIsHonest == Spec => []ModeHonest
  <1>1. Init => WiresAsTold
    BY DEF Init, WiresAsTold, Off
  <1>2. IInv /\ WiresAsTold /\ [Next]_vars => WiresAsTold'
    BY WiringKeeps, WiringStays DEF Next, Process
  <1>3. WiresAsTold => ModeHonest
    BY DEF WiresAsTold, ModeHonest, AsTold
  <1> QED
    BY <1>1, <1>2, <1>3, Invariance, PTL DEF Spec

-----------------------------------------------------------------------------
(* The catalogue.                                                          *)

\* Specs, Invoke: the model is only ever offered tools that Invoke accepts.
OffersInvocable == \A o \in offered : Invocable(o[1], o[2])

\* Before the configuration is loaded there is nothing to offer.
NothingBefore == phase = "boot" => offered = {}

\* Specs: for any upstreams, whatever they publish and whichever fail, what
\* the model is offered Invoke accepts.
THEOREM OnlyInvocableOffered == Spec => []OffersInvocable
  <1> DEFINE J == OffersInvocable /\ NothingBefore
  <1>1. Init => J
    BY DEF Init, OffersInvocable, NothingBefore
  <1>2. J /\ [Next]_vars => J'
    <2> SUFFICES ASSUME J, [Next]_vars PROVE J'
      OBVIOUS
    <2>1. CASE Discover
      <3>1. UNCHANGED wiring /\ phase' = "discover"
        BY <2>1 DEF Discover
      <3>2. \A u, t : Invocable(u, t)' <=> Invocable(u, t)
        BY <3>1 DEF wiring, Invocable, Sessions, Allowed
      <3>3. CASE UNCHANGED offered
        BY <3>1, <3>2, <3>3 DEF OffersInvocable, NothingBefore
      <3>4. CASE ~UNCHANGED offered
        <4>1. PICK u \in Sessions :
                 offered' = offered \cup {<<u, t>> : t \in Published[u] \cap Allowed(u)}
          BY <2>1, <3>4 DEF Discover, ListTools
        <4>2. ASSUME NEW o \in offered' PROVE Invocable(o[1], o[2])
          BY <4>1, <4>2 DEF OffersInvocable, Invocable
        <4> QED
          BY <3>1, <3>2, <4>2 DEF OffersInvocable, NothingBefore
      <3> QED
        BY <3>3, <3>4
    <2>2. CASE LoadConfig
      BY <2>2 DEF LoadConfig, OffersInvocable, NothingBefore, discovery
    <2>3. CASE ~Discover /\ ~LoadConfig
      <3>1. cfg' = cfg /\ offered' = offered /\ (phase' = "boot" => phase = "boot")
        BY <2>3 DEF Next, Process, Goroutines, WireOff, RefuseStart, RefuseMetrics,
           StartDiscovery, WireLLM, StartListener, Notify, Listen, ListenFails, Accept,
           Complete, Signal, Shutdown, Drained, DrainTimeout, Tick, Exit, Exited, Refuse,
           vars, wiring, discovery
      <3> QED
        BY <3>1 DEF OffersInvocable, NothingBefore, Invocable, Sessions, Allowed
    <2> QED
      BY <2>1, <2>2, <2>3
  <1> QED
    BY <1>1, <1>2, PTL DEF Spec

\* What the discovery knows of the first m upstreams: those with a session
\* were asked, and each that answered in time has its tools in the catalogue.
Catalogued(n) ==
    LET u == Upstreams[n] IN
    /\ u \in Sessions /\ took[u].answers /\ took[u].time < SessionTimeout
    /\ Before(n) + took[u].time < DiscoverBudget
    => \A t \in Published[u] : Invocable(u, t) => <<u, t>> \in offered

Searched(m) ==
    /\ DOMAIN took = {Upstreams[i] : i \in 1..m} \cap Sessions
    /\ \A u \in DOMAIN took : took[u].time \in Nat
    /\ \A n \in 1..m : Catalogued(n)

\* The time left is at least what those asked so far cannot have used.
DInv ==
    /\ phase \in {"boot", "wire", "discover"} => llm.wired = FALSE
    /\ phase \in {"boot", "wire"} => took = <<>>
    /\ phase = "discover" =>
           /\ at \in 1..(Len(Upstreams) + 1) /\ left \in Nat
           /\ Searched(at - 1) /\ left + Before(at) >= DiscoverBudget
    /\ llm.wired => Searched(Len(Upstreams))

\* The upstreams are numbered from one.
LEMMA UpstreamNumbers == Len(Upstreams) \in Nat /\ DOMAIN Upstreams = 1..Len(Upstreams)
  BY UpstreamsAssumption

\* discoverTools: one upstream more adds what it takes.
LEMMA BeforeNext ==
    ASSUME NEW n \in 1..Len(Upstreams), \A i \in 1..n : Takes(i) \in Nat
    PROVE  Before(n) \in Nat /\ Before(n + 1) = Before(n) + Takes(n)
  <1>1. PICK f : f = [i \in DOMAIN Upstreams |-> Takes(i)]
    OBVIOUS
  <1>2. n - 1 \in Nat /\ (n - 1) + 1 = n /\ (n + 1) - 1 = n /\ n \in Nat
    BY UpstreamNumbers
  <1>3. \A i \in 1..n : f[i] = Takes(i)
    BY <1>1, UpstreamNumbers
  <1>4. PICK m \in Nat : m = n - 1
    BY <1>2
  <1>5. \A i \in 1..(m + 1) : f[i] \in Nat
    BY <1>2, <1>3, <1>4
  <1>6. Total(f, m) \in Nat /\ Total(f, m + 1) = Total(f, m) + f[m + 1]
    BY <1>5, TotalOneMore
  <1>7. Total(f, n - 1) \in Nat /\ Total(f, (n + 1) - 1) = Total(f, n - 1) + f[n]
    BY <1>2, <1>4, <1>6
  <1>8. n \in 1..n
    BY <1>2
  <1> QED
    BY <1>1, <1>3, <1>7, <1>8, Zenon DEF Before

\* discoverTools: what comes before an upstream depends on those before it.
LEMMA BeforeSame ==
    ASSUME NEW n \in 1..(Len(Upstreams) + 1),
           \A i \in 1..(n - 1) : Takes(i) \in Nat /\ Takes(i)' = Takes(i)
    PROVE  Before(n)' = Before(n)
  <1>1. PICK f : f = [i \in DOMAIN Upstreams |-> Takes(i)]
    OBVIOUS
  <1>2. PICK e : e = [i \in DOMAIN Upstreams |-> Takes(i)']
    OBVIOUS
  <1>3. PICK m \in Nat : m = n - 1 /\ m <= Len(Upstreams)
    BY UpstreamNumbers
  <1>4. \A i \in 1..m : f[i] \in Nat /\ e[i] = f[i]
    BY <1>1, <1>2, <1>3, UpstreamNumbers
  <1>5. Total(e, m) = Total(f, m)
    BY <1>4, TotalSame
  <1>6. Before(n) = Total(f, m) /\ Before(n)' = Total(e, m)
    BY <1>1, <1>2, <1>3, Zenon DEF Before
  <1> QED
    BY <1>5, <1>6

\* discoverTools: the time of each upstream is known.
LEMMA TakesNat ==
    ASSUME NEW m, Searched(m)
    PROVE  \A i : Takes(i) \in Nat
  BY DEF Takes, Searched

\* discoverTools: an upstream without a session is passed over.
LEMMA SkipSearches ==
    ASSUME NEW n \in 1..Len(Upstreams), n = at, Searched(n - 1), left \in Nat,
           left + Before(n) >= DiscoverBudget,
           Upstreams[n] \notin Sessions, UNCHANGED <<wiring, left, took, offered>>
    PROVE  Searched(n)' /\ (left + Before(n + 1) >= DiscoverBudget)'
  <1>1. \A i : Takes(i) \in Nat
    BY TakesNat
  <1>2. Takes(n) = 0
    BY DEF Takes, Searched
  <1>3. n \in Nat /\ n + 1 \in 1..(Len(Upstreams) + 1) /\ \A i \in 1..n : i \in 1..(n - 1) \/ i = n
    BY UpstreamNumbers
  <1>4. Before(n + 1) = Before(n) /\ Before(n) \in Nat
    <2>1. Before(n + 1) = Before(n) + Takes(n) /\ Before(n) \in Nat
      BY <1>1, BeforeNext
    <2>2. PICK b \in Nat : b = Before(n)
      BY <2>1
    <2>3. Before(n + 1) = b + 0
      BY <1>2, <2>1, <2>2, Zenon
    <2>4. b + 0 = b
      OBVIOUS
    <2> QED
      BY <2>1, <2>2, <2>3, <2>4, Zenon
  <1>5. /\ \A i : Before(i)' = Before(i)
        /\ Sessions' = Sessions /\ \A u, t : Invocable(u, t)' <=> Invocable(u, t)
        /\ took' = took /\ offered' = offered /\ left' = left
    BY DEF Before, Takes, wiring, Sessions, Invocable, Allowed
  <1>6. Searched(n)
    <2>1. DOMAIN took = {Upstreams[i] : i \in 1..n} \cap Sessions
      BY <1>3 DEF Searched
    <2>2. \A i \in 1..n : Catalogued(i)
      BY <1>3 DEF Searched, Catalogued
    <2> QED
      BY <2>1, <2>2 DEF Searched
  <1>7. Searched(n)'
    BY <1>5, <1>6 DEF Searched, Catalogued
  <1> QED
    BY <1>4, <1>5, <1>7

\* listTools: an upstream that is asked adds its time and, in time, its tools.
LEMMA ListSearches ==
    ASSUME NEW n \in 1..Len(Upstreams), n = at, Searched(n - 1), left \in Nat,
           left + Before(n) >= DiscoverBudget,
           NEW u, u = Upstreams[n], u \in Sessions, UNCHANGED wiring,
           NEW d \in 0..SessionTimeout, NEW answers \in BOOLEAN, ListTools(u, d, answers)
    PROVE  Searched(n)' /\ (left + Before(n + 1) >= DiscoverBudget)' /\ left' \in Nat
  <1> DEFINE wait == Least(SessionTimeout, left)
             r == [time |-> d, answers |-> answers]
  <1>0. d \in Nat /\ SessionTimeout \in Nat /\ DiscoverBudget \in Nat
        /\ n \in Nat /\ n + 1 \in 1..(Len(Upstreams) + 1) /\ n \in 1..(Len(Upstreams) + 1)
        /\ \A i \in 1..n : i \in 1..(n - 1) \/ i = n
    BY BudgetAssumption, UpstreamNumbers
  <1>1. u \notin DOMAIN took
    <2>1. \A i \in 1..(n - 1) : i \in DOMAIN Upstreams /\ i # n
      BY UpstreamNumbers
    <2>2. n \in DOMAIN Upstreams
      BY UpstreamNumbers
    <2>3. \A i \in 1..(n - 1) : Upstreams[i] # u
      BY <2>1, <2>2, UpstreamsAssumption
    <2> QED
      BY <2>3 DEF Searched
  <1>2. /\ left' = left - Least(d, wait)
        /\ took' = [v \in DOMAIN took \cup {u} |-> IF v = u THEN r ELSE took[v]]
        /\ offered' = IF answers /\ d < wait
                      THEN offered \cup {<<u, t>> : t \in Published[u] \cap Allowed(u)}
                      ELSE offered
    BY DEF ListTools, Timed
  <1>3. /\ DOMAIN took' = DOMAIN took \cup {u} /\ took'[u] = r
        /\ \A v \in DOMAIN took : took'[v] = took[v]
    BY <1>1, <1>2
  <1>4. /\ left' \in Nat /\ left' >= left - d
        /\ d < SessionTimeout /\ d < left => d < wait
    BY <1>0, <1>2 DEF Least
  <1>5. r.time = d /\ r.answers = answers
    OBVIOUS
  <1> HIDE DEF wait, r
  <1>6. \A i : Takes(i) \in Nat
    BY TakesNat
  <1>7. /\ Takes(n)' = d /\ (\A i : Takes(i)' \in Nat)
        /\ \A i \in 1..(n - 1) : Takes(i)' = Takes(i)
    <2>1. Takes(n)' = d
      BY <1>3, <1>5 DEF Takes
    <2>2. \A i : Takes(i)' \in Nat
      BY <1>0, <1>3, <1>5, <1>6 DEF Takes, Searched
    <2>3. ASSUME NEW i \in 1..(n - 1) PROVE Takes(i)' = Takes(i)
      <3>1. Upstreams[i] # u
        <4>1. i \in DOMAIN Upstreams /\ i # n /\ n \in DOMAIN Upstreams
          BY UpstreamNumbers
        <4> QED
          BY <4>1, UpstreamsAssumption
      <3> QED
        BY <1>3, <3>1 DEF Takes
    <2> QED
      BY <2>1, <2>2, <2>3
  <1>8. \A k \in 1..n : Before(k)' = Before(k)
    <2>1. ASSUME NEW k \in 1..n PROVE Before(k)' = Before(k)
      <3>1. k \in 1..(Len(Upstreams) + 1) /\ \A i \in 1..(k - 1) : i \in 1..(n - 1)
        BY <1>0, UpstreamNumbers
      <3>2. \A i \in 1..(k - 1) : Takes(i) \in Nat /\ Takes(i)' = Takes(i)
        BY <1>6, <1>7, <3>1
      <3> QED
        BY <3>1, <3>2, BeforeSame
    <2> QED
      BY <2>1
  <1>9. Before(n) \in Nat /\ Before(n + 1)' = Before(n)' + Takes(n)'
    <2>1. Before(n) \in Nat
      BY <1>6, BeforeNext
    <2>2. PICK f : f = [i \in DOMAIN Upstreams |-> Takes(i)']
      OBVIOUS
    <2>3. PICK m \in Nat : m = n - 1 /\ m + 1 = n /\ (n + 1) - 1 = m + 1
      BY <1>0
    <2>4. \A i \in 1..(m + 1) : f[i] = Takes(i)'
      BY <2>2, <2>3, UpstreamNumbers
    <2>5. \A i \in 1..(m + 1) : f[i] \in Nat
      BY <1>7, <2>4
    <2>6. Total(f, m + 1) = Total(f, m) + f[m + 1]
      BY <2>5, TotalOneMore
    <2>7. Before(n)' = Total(f, m) /\ Before(n + 1)' = Total(f, m + 1)
      BY <2>2, <2>3, Zenon DEF Before
    <2>8. f[m + 1] = Takes(n)'
      <3>1. m + 1 \in 1..(m + 1)
        OBVIOUS
      <3> QED
        BY <2>3, <2>4, <3>1
    <2> QED
      BY <2>1, <2>6, <2>7, <2>8
  <1>10. (left + Before(n + 1) >= DiscoverBudget)'
    <2>1. Before(n + 1)' = Before(n) + d
      <3>1. n \in 1..n
        BY <1>0
      <3> QED
        BY <1>7, <1>8, <1>9, <3>1
    <2> QED
      BY <1>0, <1>4, <1>9, <2>1
  <1>11. /\ Sessions' = Sessions /\ \A v, t : Invocable(v, t)' <=> Invocable(v, t)
         /\ offered \subseteq offered'
    BY <1>2 DEF wiring, Sessions, Invocable, Allowed
  <1>12. ASSUME NEW i \in 1..(n - 1) PROVE Catalogued(i)'
    <2>1. Catalogued(i)
      BY DEF Searched
    <2>2. Before(i)' = Before(i)
      BY <1>0, <1>8
    <2>3. Upstreams[i] \in Sessions => Upstreams[i] \in DOMAIN took
      BY DEF Searched
    <2> QED
      BY <1>3, <1>11, <2>1, <2>2, <2>3 DEF Catalogued
  <1>13. Catalogued(n)'
    <2> SUFFICES ASSUME answers, d < SessionTimeout, Before(n) + d < DiscoverBudget,
                        NEW t \in Published[u], Invocable(u, t)
                 PROVE  <<u, t>> \in offered'
      <3>1. n \in 1..n
        BY <1>0
      <3>2. Before(n)' = Before(n) /\ took'[u].answers = answers /\ took'[u].time = d
        BY <1>3, <1>5, <1>8, <3>1
      <3> QED
        BY <1>11, <3>2 DEF Catalogued
    <2>1. d < left
      BY <1>0, <1>9
    <2>2. d < wait
      BY <1>4, <2>1
    <2>3. t \in Published[u] \cap Allowed(u)
      BY DEF Invocable
    <2> QED
      BY <1>2, <2>2, <2>3
  <1>14. Searched(n)'
    <2>1. DOMAIN took' = {Upstreams[i] : i \in 1..n} \cap Sessions'
      <3>1. {Upstreams[i] : i \in 1..n} = {Upstreams[i] : i \in 1..(n - 1)} \cup {u}
        BY <1>0
      <3> QED
        BY <1>3, <1>11, <3>1 DEF Searched
    <2>2. \A v \in DOMAIN took' : took'[v].time \in Nat
      BY <1>0, <1>3, <1>5 DEF Searched
    <2>3. \A i \in 1..n : Catalogued(i)'
      BY <1>0, <1>12, <1>13
    <2> QED
      BY <2>1, <2>2, <2>3 DEF Searched
  <1> QED
    BY <1>4, <1>10, <1>14

\* The catalogue is what the configuration, the answers and the offers make it.
LEMMA StillSearched ==
    ASSUME UNCHANGED <<cfg, took, offered>>
    PROVE  /\ \A m : Searched(m)' <=> Searched(m)
           /\ \A k : Before(k)' = Before(k)
  <1>1. \A k : Before(k)' = Before(k)
    BY DEF Before, Takes
  <1>2. Sessions' = Sessions /\ \A u, t : Invocable(u, t)' <=> Invocable(u, t)
    BY DEF Sessions, Invocable, Allowed
  <1>3. \A n : Catalogued(n)' <=> Catalogued(n)
    BY <1>1, <1>2 DEF Catalogued
  <1> QED
    BY <1>1, <1>2, <1>3 DEF Searched

\* discoverTools starts: nobody was asked and the whole time is left.
LEMMA StartSearches ==
    ASSUME DInv, StartDiscovery
    PROVE  DInv'
  <1>1. /\ phase' = "discover" /\ at' = 1 /\ left' = DiscoverBudget /\ phase = "wire"
        /\ UNCHANGED <<cfg, took, offered, llm>>
    BY DEF StartDiscovery, wiring
  <1>2. llm.wired = FALSE /\ took = <<>> /\ llm' = llm
    BY <1>1 DEF DInv
  <1>3. Before(1) = 0
    <2>1. PICK f : f = [i \in DOMAIN Upstreams |-> Takes(i)]
      OBVIOUS
    <2>2. Total(f, 0) = 0
      BY TotalNothing
    <2> QED
      BY <2>1, <2>2 DEF Before
  <1>4. Before(1)' = 0
    BY <1>1, <1>3, StillSearched
  <1>5. Searched(0)
    <2>1. DOMAIN took = {}
      BY <1>2
    <2>2. 1..0 = {}
      OBVIOUS
    <2> QED
      BY <2>1, <2>2 DEF Searched
  <1>6. Searched(0)'
    BY <1>1, <1>5, StillSearched
  <1>7. 1 \in 1..(Len(Upstreams) + 1) /\ 1 - 1 = 0 /\ DiscoverBudget \in Nat
    BY UpstreamNumbers, BudgetAssumption
  <1>8. Searched(at - 1)' /\ Before(at)' = 0
    BY <1>1, <1>4, <1>6, <1>7
  <1>9. (left + Before(at) >= DiscoverBudget)' /\ at' \in 1..(Len(Upstreams) + 1) /\ left' \in Nat
    BY <1>1, <1>7, <1>8
  <1> QED
    BY <1>1, <1>2, <1>8, <1>9 DEF DInv

\* discoverTools: each upstream it passes keeps the account.
LEMMA DiscoverSearches ==
    ASSUME DInv, Discover
    PROVE  DInv'
  <1>1. PICK n : n = at
    OBVIOUS
  <1>2. /\ phase = "discover" /\ phase' = "discover" /\ at <= Len(Upstreams)
        /\ UNCHANGED wiring /\ llm' = llm
    BY DEF Discover, wiring
  <1>3. /\ llm.wired = FALSE /\ at \in 1..(Len(Upstreams) + 1) /\ left \in Nat
        /\ Searched(at - 1) /\ left + Before(at) >= DiscoverBudget
    BY <1>2 DEF DInv
  <1>4. n \in 1..Len(Upstreams) /\ Searched(n - 1) /\ left + Before(n) >= DiscoverBudget
    BY <1>1, <1>2, <1>3, UpstreamNumbers
  <1>5. at' = n + 1 /\ left' \in Nat /\ Searched(n)' /\ (left + Before(n + 1) >= DiscoverBudget)'
    <2>1. CASE Upstreams[n] \notin Sessions
      <3>1. at' = n + 1 /\ UNCHANGED <<wiring, left, took, offered>>
        BY <1>1, <1>2, <2>1 DEF Discover
      <3>2. Searched(n)' /\ (left + Before(n + 1) >= DiscoverBudget)'
        BY <1>1, <1>3, <1>4, <2>1, <3>1, SkipSearches
      <3> QED
        BY <1>3, <3>1, <3>2
    <2>2. CASE Upstreams[n] \in Sessions
      <3>1. PICK u : u = Upstreams[n]
        OBVIOUS
      <3>2. PICK d \in 0..SessionTimeout, answers \in BOOLEAN : ListTools(u, d, answers)
        BY <1>1, <2>2, <3>1 DEF Discover
      <3>3. at' = n + 1
        BY <1>1, <3>2 DEF ListTools
      <3>4. Searched(n)' /\ (left + Before(n + 1) >= DiscoverBudget)' /\ left' \in Nat
        BY <1>1, <1>2, <1>3, <1>4, <2>2, <3>1, <3>2, ListSearches
      <3> QED
        BY <3>3, <3>4
    <2> QED
      BY <2>1, <2>2
  <1>6. n + 1 \in 1..(Len(Upstreams) + 1) /\ (n + 1) - 1 = n
    BY <1>4, UpstreamNumbers
  <1>7. /\ at' \in 1..(Len(Upstreams) + 1) /\ Searched(at - 1)'
        /\ (left + Before(at) >= DiscoverBudget)'
    BY <1>5, <1>6
  <1> QED
    BY <1>2, <1>3, <1>5, <1>7 DEF DInv

\* Every other step leaves the catalogue as it is.
LEMMA OthersSearch ==
    ASSUME DInv, [Next]_vars, ~StartDiscovery, ~Discover
    PROVE  DInv'
  <1>1. CASE LoadConfig
    <2>1. phase = "boot" /\ phase' = "wire" /\ UNCHANGED <<llm, took>>
      BY <1>1 DEF LoadConfig, discovery
    <2> QED
      BY <2>1 DEF DInv
  <1>2. CASE WireLLM
    <2>1. /\ phase = "discover" /\ phase' = "mount" /\ UNCHANGED <<cfg, took, offered>>
          /\ at > Len(Upstreams)
      BY <1>2 DEF WireLLM, discovery
    <2>2. at \in 1..(Len(Upstreams) + 1) /\ Searched(at - 1)
      BY <2>1 DEF DInv
    <2>3. at - 1 = Len(Upstreams)
      BY <2>1, <2>2, UpstreamNumbers
    <2>4. Searched(Len(Upstreams))'
      BY <2>1, <2>2, <2>3, StillSearched
    <2> QED
      BY <2>1, <2>4 DEF DInv
  <1>3. CASE ~LoadConfig /\ ~WireLLM
    <2>1. UNCHANGED <<cfg, llm, at, took, offered>>
      BY <1>3 DEF Next, Process, Goroutines, WireOff, RefuseStart, RefuseMetrics,
         StartListener, Notify, Listen, ListenFails, Accept, Complete, Signal, Shutdown,
         Drained, DrainTimeout, Tick, Exit, Exited, Refuse, vars, wiring, discovery
    <2>2. /\ phase' \in {"boot", "wire"} => phase' = phase
          /\ phase' = "discover" => phase = "discover" /\ left' = left
      BY <1>3 DEF Next, Process, Goroutines, WireOff, RefuseStart, RefuseMetrics,
         StartListener, Notify, Listen, ListenFails, Accept, Complete, Signal, Shutdown,
         Drained, DrainTimeout, Tick, Exit, Exited, Refuse, vars
    <2>3. /\ \A m : Searched(m)' <=> Searched(m)
          /\ \A k : Before(k)' = Before(k)
      BY <2>1, StillSearched
    <2>4. Searched(at - 1)' <=> Searched(at - 1)
      BY <2>1, <2>3
    <2>5. Before(at)' = Before(at)
      BY <2>1, <2>3
    <2>6. (phase = "discover" => left + Before(at) >= DiscoverBudget)
          => (phase' = "discover" => (left + Before(at) >= DiscoverBudget)')
      BY <2>2, <2>5
    <2> QED
      BY <2>1, <2>2, <2>3, <2>4, <2>6 DEF DInv
  <1> QED
    BY <1>1, <1>2, <1>3

\* discoverTools: at every upstream, those passed with a session were asked,
\* each that answered in time is in the catalogue, and the time left is at
\* least the budget less what they took.
THEOREM DiscoveryInvariance == Spec => []DInv
  <1>1. Init => DInv
    BY DEF Init, DInv
  <1>2. DInv /\ [Next]_vars => DInv'
    BY StartSearches, DiscoverSearches, OthersSearch
  <1> QED
    BY <1>1, <1>2, PTL DEF Spec

\* Specs, Invoke, discoverTools: for any upstreams, publications, timeouts and
\* failures, the model is offered only tools Invoke accepts and all those of
\* every upstream that answered in time, whichever others hung or failed.
THEOREM OffersAreTrue == Spec => []OfferTrue
  <1>1. DInv /\ OffersInvocable => OfferTrue
    <2> SUFFICES ASSUME DInv, OffersInvocable, llm.wired PROVE OfferTrue
      BY DEF OfferTrue
    <2>1. Searched(Len(Upstreams))
      BY DEF DInv
    <2>2. ASSUME NEW n \in DOMAIN Upstreams, Upstreams[n] \in Sessions
          PROVE  Upstreams[n] \in DOMAIN took /\ Catalogued(n)
      BY <2>1, <2>2, UpstreamNumbers DEF Searched
    <2> QED
      BY <2>2 DEF OfferTrue, OffersInvocable, Catalogued
  <1> QED
    BY <1>1, DiscoveryInvariance, OnlyInvocableOffered, PTL

-----------------------------------------------------------------------------
(* The configuration.                                                      *)

\* The process keeps the configuration its environment loads to.
Loaded == env \in Environments /\ (cfg = NoConfig \/ cfg = Load(env))

\* loadList: blanks are dropped, and what is left is taken whole; with nothing
\* left, the default stays.
LEMMA LoadListTrue ==
    ASSUME NEW T, NEW raw \in Seq(T), NEW fallback, fallback # <<>>
    PROVE  /\ LoadList(raw, fallback) # <<>>
           /\ ToSet(raw) \ {Blank} # {} => ToSet(LoadList(raw, fallback)) = ToSet(raw) \ {Blank}
  <1>1. PICK W : W = ToSet(raw) \ {Blank}
    OBVIOUS
  <1>2. PICK out : out = Only(raw, W)
    OBVIOUS
  <1>3. ToSet(out) = W
    <2>1. ToSet(out) = ToSet(raw) \cap W
      BY <1>2, OnlySet
    <2> QED
      BY <1>1, <2>1
  <1>4. ToSet(<<>>) = {}
    BY DEF ToSet
  <1>5. LoadList(raw, fallback) = IF out = <<>> THEN fallback ELSE out
    BY <1>1, <1>2 DEF LoadList
  <1> QED
    BY <1>1, <1>3, <1>4, <1>5

\* toPathTaskTypes: a target alone with its path id gives the path its type.
LEMMA TaskTypesTrue ==
    ASSUME NEW T, NEW targets \in Seq(T), NEW i \in DOMAIN targets, Binding(targets[i]),
           \A j \in DOMAIN targets : targets[j].pathId = targets[i].pathId => j = i
    PROVE  ToPathTaskTypes(targets)[targets[i].pathId] = targets[i].processPath
  <1> DEFINE bound == {j \in DOMAIN targets : Binding(targets[j])}
  <1>1. PICK p : p = targets[i].pathId
    OBVIOUS
  <1>2. {j \in bound : targets[j].pathId = p} = {i}
    BY <1>1
  <1>3. i \in Int
    OBVIOUS
  <1>4. Max({i}) = i
    BY <1>3 DEF Max
  <1>5. p \in {targets[j].pathId : j \in bound}
    BY <1>1
  <1>6. ToPathTaskTypes(targets) =
            [q \in {targets[j].pathId : j \in bound} |->
                targets[Max({j \in bound : targets[j].pathId = q})].processPath]
    BY Zenon DEF ToPathTaskTypes
  <1>7. ToPathTaskTypes(targets)[p] =
            targets[Max({j \in bound : targets[j].pathId = p})].processPath
    BY <1>5, <1>6
  <1> QED
    BY <1>1, <1>2, <1>4, <1>7

\* Load: each field comes from its own loader.
LEMMA LoadFields ==
    ASSUME NEW e
    PROVE  /\ Load(e).allow = LoadList(e.allow, DefaultAllowList)
           /\ Load(e).services = LoadList(e.services, DefaultServices)
           /\ Load(e).targets = LoadPathTargets(e.targets)
           /\ Load(e).timeout = LoadDuration(e.timeout, DefaultTimeout)
  BY DEF Load, LoadRuntimeSignalsServices

\* The loaders of internal/config: whatever the environment says, the process
\* has a usable allow-list, targets, services and timeout, what an override
\* says is taken whole, and a path's task type is its target's.
THEOREM ConfigIsUsable == Spec => []ConfigUsable
  <1>1. Init => Loaded
    BY DEF Init, Loaded
  <1>2. Loaded /\ [Next]_vars => Loaded'
    <2> SUFFICES ASSUME Loaded, [Next]_vars PROVE Loaded'
      OBVIOUS
    <2>1. CASE LoadConfig
      <3>1. cfg' = Load(env) /\ env' = env
        BY <2>1 DEF LoadConfig
      <3> QED
        BY <3>1 DEF Loaded
    <2>2. CASE ~LoadConfig
      <3>1. UNCHANGED <<env, cfg>>
        BY <2>2 DEF Next, Process, Goroutines, WireOff, RefuseStart, RefuseMetrics,
           StartDiscovery, Discover, WireLLM, StartListener, Notify, Listen, ListenFails,
           Accept, Complete, Signal, Shutdown, Drained, DrainTimeout, Tick, Exit, Exited,
           vars, wiring
      <3> QED
        BY <3>1 DEF Loaded
    <2> QED
      BY <2>1, <2>2
  <1>3. Loaded => ConfigUsable
    <2> SUFFICES ASSUME Loaded, cfg # NoConfig PROVE ConfigUsable
      BY DEF ConfigUsable
    <2>1. PICK e : e = env
      OBVIOUS
    <2>2. cfg = Load(e) /\ e \in Environments
      BY <2>1 DEF Loaded
    <2>3. /\ e.allow \in Seq(Seq(STRING)) /\ e.services \in Seq(Seq(STRING)) /\ e.timeout \in Int
          /\ e.targets.list \in Seq([pathId : STRING, processPath : STRING])
      BY <2>2, EnvironmentAssumption
    <2>4. /\ cfg.allow # <<>>
          /\ ToSet(e.allow) \ {Blank} # {} => ToSet(cfg.allow) = ToSet(e.allow) \ {Blank}
      <3>1. PICK raw \in Seq(Seq(STRING)) : raw = e.allow
        BY <2>3
      <3>2. cfg.allow = LoadList(raw, DefaultAllowList)
        BY <2>2, <3>1, LoadFields
      <3>3. DefaultAllowList # <<>>
        BY DefaultsAssumption
      <3>4. /\ LoadList(raw, DefaultAllowList) # <<>>
            /\ ToSet(raw) \ {Blank} # {}
               => ToSet(LoadList(raw, DefaultAllowList)) = ToSet(raw) \ {Blank}
        BY <3>3, LoadListTrue
      <3> QED
        BY <3>1, <3>2, <3>4, Zenon
    <2>5. cfg.services # <<>>
      BY <2>2, <2>3, LoadFields, LoadListTrue, DefaultsAssumption
    <2>6. cfg.timeout > 0
      BY <2>2, <2>3, LoadFields, DefaultsAssumption DEF LoadDuration
    <2>7. cfg.targets # <<>> /\ cfg.targets \in Seq([pathId : STRING, processPath : STRING])
      BY <2>2, <2>3, LoadFields, DefaultsAssumption DEF LoadPathTargets
    <2>8. ASSUME NEW i \in DOMAIN cfg.targets, Binding(cfg.targets[i]),
                 \A j \in DOMAIN cfg.targets : cfg.targets[j].pathId = cfg.targets[i].pathId => j = i
          PROVE  ToPathTaskTypes(cfg.targets)[cfg.targets[i].pathId] = cfg.targets[i].processPath
      BY <2>7, <2>8, TaskTypesTrue
    <2> QED
      BY <2>1, <2>4, <2>5, <2>6, <2>7, <2>8 DEF ConfigUsable
  <1> QED
    BY <1>1, <1>2, <1>3, PTL DEF Spec
=============================================================================
