--------------------------- MODULE ReasonerProofs ---------------------------
(***************************************************************************)
(* Proofs about Reasoner, for every set of callers, turn limit, attempt    *)
(* limit and breaker configuration: every way out of the breaker is        *)
(* reported, the paid requests of a call are bounded, the loop implements  *)
(* the circuit breaker's specification and so keeps all its promises, an   *)
(* open breaker bounds what each caller still sends, and an operator who   *)
(* leaves is nobody's failure.                                             *)
(***************************************************************************)
EXTENDS Reasoner, TLAPS

\* The breaker's own theorems, for the settings of this module.
CBP == INSTANCE CircuitBreakerProofs

PcType == InExecute \cup Returned \cup {"turn", "blocks", "tool"}

CallType == [Callers -> {"idle", "inflight", "rejected"}]

\* What one call's record satisfies: the requests sent fit the turns begun,
\* an attempt about to be made fits the turn's budget, a turn starts afresh.
Sound(r) ==
    /\ r \in RunType
    /\ r.sent <= r.turn * MaxAttempts + r.tries
    /\ r.pc \in {"attempt", "backoff"} => r.tries < MaxAttempts
    /\ r.pc \in Returned \cup {"turn"} => r.tries = 0

\* The inductive invariant: the budget of every call, and the link between
\* the loop's position and the breaker's view of the caller.
IInv ==
    /\ run \in [Callers -> RunType]
    /\ call \in CallType
    /\ EveryExitReports
    /\ \A c \in Callers : Sound(run[c])

-----------------------------------------------------------------------------
(* One call's record.                                                      *)

\* The limits are natural numbers, and so is a number of turns' budget.
LEMMA Bounds ==
    /\ MaxTurns \in Nat \ {0} /\ MaxAttempts \in Nat \ {0} /\ MaxBlocks \in Nat
    /\ \A t \in Nat : t * MaxAttempts \in Nat
                      /\ (t + 1) * MaxAttempts = t * MaxAttempts + MaxAttempts
BY ReasonerAssumption

\* What fits a turn's attempts fits the turn.
LEMMA TurnSpent ==
    ASSUME NEW sent \in Nat, NEW turn \in Nat, NEW tries \in 0..MaxAttempts,
           sent <= turn * MaxAttempts + tries
    PROVE  /\ sent <= (turn + 1) * MaxAttempts
           /\ sent <= (turn + 1) * MaxAttempts + 0
<1>1. (turn + 1) * MaxAttempts = turn * MaxAttempts + MaxAttempts
  BY Bounds
<1>2. tries \in Nat /\ tries <= MaxAttempts /\ turn * MaxAttempts \in Nat
  BY Bounds
<1> QED
  BY <1>1, <1>2, Bounds

\* A record of the type has fields of the types.
LEMMA RunFields ==
    ASSUME NEW r \in RunType
    PROVE  /\ r.pc \in PcType /\ r.turn \in 0..(MaxTurns - 1)
           /\ r.tries \in 0..MaxAttempts /\ r.blocks \in 0..MaxBlocks
           /\ r.sent \in Nat /\ r.ctx \in {"live", "deadline", "cancelled"}
           /\ r.turn \in Nat /\ r.tries \in Nat
BY Bounds DEF RunType, PcType

\* Goto changes the position alone.
LEMMA MovePc ==
    ASSUME NEW r \in RunType, NEW p \in PcType
    PROVE  LET q == [r EXCEPT !.pc = p]
           IN  /\ q \in RunType
               /\ q.pc = p /\ q.turn = r.turn /\ q.tries = r.tries
               /\ q.blocks = r.blocks /\ q.sent = r.sent /\ q.ctx = r.ctx
BY DEF RunType, PcType

\* Passing over a block changes their count alone.
LEMMA MoveOneBlock ==
    ASSUME NEW r \in RunType, NEW b \in 0..MaxBlocks
    PROVE  LET q == [r EXCEPT !.blocks = b]
           IN  /\ q \in RunType
               /\ q.blocks = b /\ q.pc = r.pc /\ q.turn = r.turn
               /\ q.tries = r.tries /\ q.sent = r.sent /\ q.ctx = r.ctx
BY DEF RunType, PcType

\* A context that dies changes nothing else.
LEMMA MoveCtx ==
    ASSUME NEW r \in RunType, NEW x \in {"live", "deadline", "cancelled"}
    PROVE  LET q == [r EXCEPT !.ctx = x]
           IN  /\ q \in RunType
               /\ q.ctx = x /\ q.pc = r.pc /\ q.turn = r.turn
               /\ q.tries = r.tries /\ q.blocks = r.blocks /\ q.sent = r.sent
BY DEF RunType, PcType

\* A returned call has spent nothing.
LEMMA ReturnedSound ==
    ASSUME NEW result \in Returned
    PROVE  LET q == [Idle EXCEPT !.pc = result]
           IN  Sound(q) /\ q.pc \notin InExecute
<1>1. Idle \in RunType /\ Idle.sent = 0 /\ Idle.turn = 0 /\ Idle.tries = 0
  BY Bounds DEF Idle, RunType, Returned, InExecute
<1>2. result \in PcType /\ result \notin InExecute /\ result \notin {"attempt", "backoff"}
  BY DEF PcType, Returned, InExecute
<1> DEFINE q == [Idle EXCEPT !.pc = result]
<1>3. /\ q \in RunType
      /\ q.pc = result /\ q.sent = 0 /\ q.turn = 0 /\ q.tries = 0
  BY <1>1, <1>2, MovePc
<1> HIDE DEF q
<1>4. Sound(q) /\ q.pc \notin InExecute
  BY <1>2, <1>3, Bounds DEF Sound
<1> QED
  BY <1>4 DEF q

\* When one caller's record changes to a sound one, the invariant is kept.
LEMMA OneCallerSteps ==
    ASSUME IInv, NEW c \in Callers, NEW r, Become(c, r), Sound(r),
           call' \in CallType,
           \A d \in Callers \ {c} : call'[d] = call[d],
           call'[c] = "inflight" <=> r.pc \in InExecute
    PROVE  IInv'
<1>1. run' = [run EXCEPT ![c] = r] /\ run \in [Callers -> RunType] /\ r \in RunType
  BY DEF Become, IInv, Sound
<1>2. /\ run' \in [Callers -> RunType] /\ run'[c] = r
      /\ \A d \in Callers \ {c} : run'[d] = run[d]
  BY <1>1
<1>3. EveryExitReports'
  BY <1>2 DEF IInv, EveryExitReports
<1>4. ASSUME NEW d \in Callers PROVE Sound(run'[d])
  BY <1>2 DEF IInv
<1>5. (\A d \in Callers : Sound(run[d]))'
  BY <1>4 DEF Sound, RunType
<1> QED
  BY <1>2, <1>3, <1>5 DEF IInv

\* ... in particular when neither the breaker nor the caller's place in it
\* changes.
LEMMA OutsideSteps ==
    ASSUME IInv, NEW c \in Callers, NEW r, Become(c, r), Sound(r), UNCHANGED call,
           r.pc \in InExecute <=> run[c].pc \in InExecute
    PROVE  IInv'
BY OneCallerSteps DEF IInv, EveryExitReports

\* The breaker's steps put one caller in flight, or take it out.
LEMMA CallSteps ==
    ASSUME call \in CallType, NEW c \in Callers
    PROVE  /\ CB!Admit(c) => /\ call' \in CallType /\ call'[c] = "inflight"
                             /\ \A d \in Callers \ {c} : call'[d] = call[d]
           /\ CB!Reject(c) => /\ call' \in CallType /\ call'[c] = "rejected"
                              /\ \A d \in Callers \ {c} : call'[d] = call[d]
           /\ \A o : CB!Complete(c, o) =>
                  /\ call' \in CallType /\ call'[c] = "idle"
                  /\ \A d \in Callers \ {c} : call'[d] = call[d]
<1>1. CB!Admit(c) => call' = [call EXCEPT ![c] = "inflight"]
  BY DEF CB!Admit
<1>2. CB!Reject(c) => call' = [call EXCEPT ![c] = "rejected"]
  BY DEF CB!Reject
<1>3. \A o : CB!Complete(c, o) => call' = [call EXCEPT ![c] = "idle"]
  BY DEF CB!Complete
<1> QED
  BY <1>1, <1>2, <1>3 DEF CallType

\* What the invariant says of the caller that takes a step.
LEMMA CallerFacts ==
    ASSUME IInv, NEW c \in Callers
    PROVE  /\ call \in CallType
           /\ call[c] = "inflight" <=> run[c].pc \in InExecute
           /\ Sound(run[c]) /\ run[c] \in RunType
BY DEF IInv, EveryExitReports

-----------------------------------------------------------------------------
(* The invariant is inductive.                                             *)

\* No call has begun.
LEMMA InitIInv == Init => IInv
<1> SUFFICES ASSUME Init PROVE IInv
  OBVIOUS
<1>1. Idle \in RunType /\ Idle.pc = "idle"
      /\ Idle.sent = 0 /\ Idle.turn = 0 /\ Idle.tries = 0
  BY Bounds DEF Idle, RunType, Returned, InExecute
<1>2. run = [c \in Callers |-> Idle] /\ call = [c \in Callers |-> "idle"]
  BY DEF Init, CB!Init
<1>3. Sound(Idle)
  BY <1>1, Bounds DEF Sound
<1>4. EveryExitReports
  BY <1>1, <1>2 DEF EveryExitReports, InExecute
<1>5. \A c \in Callers : Sound(run[c])
  BY <1>2, <1>3
<1> QED
  BY <1>1, <1>2, <1>4, <1>5 DEF IInv, CallType

\* A caller that returns and is not in flight afterwards.
LEMMA ReturnKeeps ==
    ASSUME IInv, NEW c \in Callers, NEW result \in Returned, Return(c, result),
           call' \in CallType, \A d \in Callers \ {c} : call'[d] = call[d],
           call'[c] # "inflight"
    PROVE  IInv'
<1> DEFINE r == [Idle EXCEPT !.pc = result]
<1>1. Sound(r) /\ r.pc \notin InExecute
  BY ReturnedSound
<1>2. Become(c, r)
  BY DEF Return
<1> HIDE DEF r
<1> QED
  BY <1>1, <1>2, OneCallerSteps

\* A caller that moves on outside the breaker, or inside it, with no send
\* and no new turn.
LEMMA GotoKeeps ==
    ASSUME IInv, NEW c \in Callers, NEW p \in PcType, Goto(c, p), UNCHANGED call,
           p \in InExecute <=> run[c].pc \in InExecute,
           p \in {"attempt", "backoff"} => run[c].tries < MaxAttempts,
           p \in Returned \cup {"turn"} => run[c].tries = 0
    PROVE  IInv'
<1> DEFINE r == [run[c] EXCEPT !.pc = p]
<1>1. Sound(run[c]) /\ run[c] \in RunType
  BY CallerFacts
<1>2. /\ r \in RunType
      /\ r.pc = p /\ r.turn = run[c].turn /\ r.tries = run[c].tries /\ r.sent = run[c].sent
  BY <1>1, MovePc
<1>3. Become(c, r)
  BY DEF Goto
<1> HIDE DEF r
<1>4. Sound(r)
  BY <1>1, <1>2 DEF Sound
<1> QED
  BY <1>2, <1>3, <1>4, OutsideSteps

\* Entering the breaker, with a fresh budget of attempts.
LEMMA EnterIInv ==
    ASSUME IInv, NEW c \in Callers, Enter(c)
    PROVE  IInv'
<1> DEFINE r == [run[c] EXCEPT !.pc = "attempt"]
<1>1. Sound(run[c]) /\ run[c] \in RunType /\ run[c].pc = "turn" /\ call \in CallType
  BY CallerFacts DEF Enter
<1>2. /\ r \in RunType
      /\ r.pc = "attempt" /\ r.turn = run[c].turn /\ r.tries = run[c].tries
      /\ r.sent = run[c].sent
  BY <1>1, MovePc DEF PcType, InExecute
<1>3. Become(c, r) /\ CB!Admit(c)
  BY DEF Enter, Goto
<1> HIDE DEF r
<1>4. Sound(r) /\ r.pc \in InExecute
  BY <1>1, <1>2, Bounds DEF Sound, InExecute
<1> QED
  BY <1>1, <1>3, <1>4, CallSteps, OneCallerSteps

\* An answer leaves the breaker and begins the walk over its blocks.
LEMMA AnsweredIInv ==
    ASSUME IInv, NEW c \in Callers, Answered(c)
    PROVE  IInv'
<1> DEFINE r == [run[c] EXCEPT !.pc = "blocks", !.blocks = 0]
<1>1. /\ Sound(run[c]) /\ run[c] \in RunType /\ call \in CallType
      /\ "blocks" \in PcType /\ 0 \in 0..MaxBlocks
  BY CallerFacts, Bounds DEF PcType
<1>2. /\ r \in RunType
      /\ r.pc = "blocks" /\ r.turn = run[c].turn /\ r.tries = run[c].tries
      /\ r.sent = run[c].sent
  BY <1>1 DEF RunType, PcType
<1>3. Become(c, r) /\ CB!Complete(c, "ok")
  BY DEF Answered
<1> HIDE DEF r
<1>4. Sound(r) /\ r.pc \notin InExecute
  BY <1>1, <1>2 DEF Sound, InExecute, Returned
<1> QED
  BY <1>1, <1>3, <1>4, CallSteps, OneCallerSteps

\* A send adds one to both sides of the budget.
LEMMA SendIInv ==
    ASSUME IInv, NEW c \in Callers, Send(c)
    PROVE  IInv'
<1> DEFINE r == [run[c] EXCEPT !.pc = "sent", !.tries = @ + 1, !.sent = @ + 1]
<1>1. /\ Sound(run[c]) /\ run[c] \in RunType /\ run[c].pc = "attempt"
      /\ run[c].tries < MaxAttempts
  BY CallerFacts DEF Send, Sound
<1>2. /\ run[c].tries \in Nat /\ run[c].sent \in Nat /\ run[c].turn \in Nat
      /\ run[c].tries + 1 \in 0..MaxAttempts /\ run[c].sent + 1 \in Nat
      /\ "sent" \in PcType
  BY <1>1, RunFields, Bounds DEF PcType, InExecute
<1>3. /\ r \in RunType
      /\ r.pc = "sent" /\ r.turn = run[c].turn
      /\ r.tries = run[c].tries + 1 /\ r.sent = run[c].sent + 1
  BY <1>1, <1>2 DEF RunType, PcType
<1>4. Become(c, r) /\ UNCHANGED call
  BY DEF Send, cbVars
<1> HIDE DEF r
<1>5. r.sent <= r.turn * MaxAttempts + r.tries
  BY <1>1, <1>2, <1>3, Bounds DEF Sound
<1>6. Sound(r) /\ r.pc \in InExecute /\ run[c].pc \in InExecute
  BY <1>1, <1>3, <1>5 DEF Sound, InExecute, Returned
<1> QED
  BY <1>4, <1>6, OutsideSteps

\* A walk over the blocks keeps the budget.
LEMMA BlockIInv ==
    ASSUME IInv, NEW c \in Callers, PassOver(c) \/ Invoke(c)
    PROVE  IInv'
<1>1. /\ Sound(run[c]) /\ run[c] \in RunType /\ run[c].pc = "blocks"
      /\ run[c].blocks + 1 \in 0..MaxBlocks /\ UNCHANGED call
      /\ "tool" \in PcType
  BY CallerFacts, RunFields, Bounds DEF PassOver, Invoke, cbVars, PcType
<1>2. CASE PassOver(c)
  <2> DEFINE r == [run[c] EXCEPT !.blocks = @ + 1]
  <2>1. /\ r \in RunType
        /\ r.pc = run[c].pc /\ r.turn = run[c].turn /\ r.tries = run[c].tries
        /\ r.sent = run[c].sent
    BY <1>1, MoveOneBlock
  <2>2. Become(c, r)
    BY <1>2 DEF PassOver
  <2> HIDE DEF r
  <2>3. Sound(r)
    BY <1>1, <2>1 DEF Sound
  <2> QED
    BY <1>1, <2>1, <2>2, <2>3, OutsideSteps
<1>3. CASE Invoke(c)
  <2> DEFINE r == [run[c] EXCEPT !.pc = "tool", !.blocks = @ + 1]
  <2>1. /\ r \in RunType
        /\ r.pc = "tool" /\ r.turn = run[c].turn /\ r.tries = run[c].tries
        /\ r.sent = run[c].sent
    BY <1>1 DEF RunType, PcType
  <2>2. Become(c, r)
    BY <1>3 DEF Invoke
  <2> HIDE DEF r
  <2>3. Sound(r) /\ r.pc \notin InExecute /\ run[c].pc \notin InExecute
    BY <1>1, <2>1 DEF Sound, InExecute, Returned
  <2> QED
    BY <1>1, <2>2, <2>3, OutsideSteps
<1> QED
  BY <1>2, <1>3

\* A new turn brings a new budget of attempts; the last turn returns.
LEMMA EndTurnIInv ==
    ASSUME IInv, NEW c \in Callers, EndTurn(c)
    PROVE  IInv'
<1>1. /\ Sound(run[c]) /\ run[c] \in RunType /\ run[c].pc = "blocks"
      /\ call \in CallType /\ UNCHANGED call /\ call[c] # "inflight"
  BY CallerFacts DEF EndTurn, cbVars, InExecute
<1>2. CASE run[c].turn + 1 < MaxTurns
  <2> DEFINE r == [run[c] EXCEPT !.pc = "turn", !.turn = @ + 1, !.tries = 0]
  <2>1. /\ run[c].turn \in Nat /\ run[c].tries \in 0..MaxAttempts /\ run[c].sent \in Nat
        /\ run[c].turn + 1 \in 0..(MaxTurns - 1) /\ 0 \in 0..MaxAttempts
        /\ "turn" \in PcType
    BY <1>1, <1>2, RunFields, Bounds DEF PcType
  <2>2. /\ r \in RunType
        /\ r.pc = "turn" /\ r.turn = run[c].turn + 1 /\ r.tries = 0
        /\ r.sent = run[c].sent
    BY <1>1, <2>1 DEF RunType, PcType
  <2>3. Become(c, r)
    BY <1>2 DEF EndTurn
  <2> HIDE DEF r
  <2>4. r.sent <= r.turn * MaxAttempts + r.tries
    <3>1. run[c].sent <= run[c].turn * MaxAttempts + run[c].tries
      BY <1>1 DEF Sound
    <3>2. run[c].sent <= (run[c].turn + 1) * MaxAttempts + 0
      BY <2>1, <3>1, TurnSpent
    <3> QED
      BY <2>2, <3>2
  <2>5. Sound(r) /\ r.pc \notin InExecute
    BY <2>2, <2>4, Bounds DEF Sound, InExecute
  <2> QED
    BY <1>1, <2>3, <2>5, OneCallerSteps
<1>3. CASE ~(run[c].turn + 1 < MaxTurns)
  BY <1>1, <1>3, ReturnKeeps DEF EndTurn, Returned
<1> QED
  BY <1>2, <1>3

\* A context that dies keeps the budget.
LEMMA CtxDiesIInv ==
    ASSUME IInv, NEW c \in Callers, NEW why \in {"deadline", "cancelled"}, CtxDies(c, why)
    PROVE  IInv'
<1> DEFINE r == [run[c] EXCEPT !.ctx = why]
<1>1. Sound(run[c]) /\ run[c] \in RunType /\ why \in {"live", "deadline", "cancelled"}
  BY CallerFacts
<1>2. /\ r \in RunType
      /\ r.pc = run[c].pc /\ r.turn = run[c].turn /\ r.tries = run[c].tries
      /\ r.sent = run[c].sent
  BY <1>1, MoveCtx
<1>3. Become(c, r) /\ UNCHANGED call
  BY DEF CtxDies, cbVars
<1> HIDE DEF r
<1>4. Sound(r)
  BY <1>1, <1>2 DEF Sound
<1> QED
  BY <1>2, <1>3, <1>4, OutsideSteps

\* The invariant holds after every step.
LEMMA NextIInv == IInv /\ [Next]_vars => IInv'
<1> SUFFICES ASSUME IInv, [Next]_vars PROVE IInv'
  OBVIOUS
<1>1. ASSUME NEW c \in Callers, CallerStep(c) PROVE IInv'
  <2>0. /\ call \in CallType /\ Sound(run[c]) /\ run[c] \in RunType
        /\ call[c] = "inflight" <=> run[c].pc \in InExecute
    BY CallerFacts
  <2>1. CASE Reason(c)
    BY <2>0, <2>1, GotoKeeps DEF Reason, Sound, PcType, InExecute, Returned, cbVars
  <2>2. CASE TurnedAway(c)
    BY <2>0, <2>2, CallSteps, ReturnKeeps DEF TurnedAway, Returned
  <2>3. CASE RefusedByServer(c)
    BY <2>0, <2>3, CallSteps, ReturnKeeps DEF RefusedByServer, Returned
  <2>4. CASE Exhausted(c)
    BY <2>0, <2>4, CallSteps, ReturnKeeps DEF Exhausted, Returned
  <2>5. CASE Abandoned(c)
    BY <2>0, <2>5, CallSteps, ReturnKeeps DEF Abandoned, Returned
  <2>6. CASE BackOff(c)
    BY <2>0, <2>6, GotoKeeps DEF BackOff, PcType, InExecute, Returned, cbVars
  <2>7. CASE Wake(c)
    BY <2>0, <2>7, GotoKeeps DEF Wake, Sound, PcType, InExecute, Returned, cbVars
  <2>8. CASE ToolReturns(c)
    BY <2>0, <2>8, GotoKeeps DEF ToolReturns, PcType, InExecute, Returned, cbVars
  <2>9. CASE Submit(c)
    <3>1. /\ call[c] # "inflight" /\ UNCHANGED call
          /\ \E result \in Returned : Return(c, result)
      BY <2>0, <2>9 DEF Submit, InExecute, Returned, cbVars
    <3> QED
      BY <2>0, <3>1, ReturnKeeps
  <2> QED
    BY <1>1, <2>1, <2>2, <2>3, <2>4, <2>5, <2>6, <2>7, <2>8, <2>9,
       EnterIInv, AnsweredIInv, SendIInv, BlockIInv, EndTurnIInv, CtxDiesIInv
    DEF CallerStep
<1>2. ASSUME UNCHANGED <<run, call>> PROVE IInv'
  BY <1>2 DEF IInv, EveryExitReports, CallType, RunType, Sound
<1>3. CASE Tick
  BY <1>2, <1>3 DEF Tick, CB!Tick
<1>4. CASE UNCHANGED vars
  BY <1>2, <1>4 DEF vars
<1> QED
  BY <1>1, <1>3, <1>4 DEF Next

\* The inductive invariant holds in every reachable state.
THEOREM Invariance == Spec => []IInv
BY InitIInv, NextIInv, PTL DEF Spec

-----------------------------------------------------------------------------
(* The results.                                                            *)

\* Whatever the answers, the retries and the contexts do, a caller counts as
\* in flight exactly while it is inside Execute: no return path of call,
\* retryingRequest or doRequest leaves the breaker unreported.
THEOREM ExitsAreReported == Spec => []EveryExitReports
<1>1. IInv => EveryExitReports
  BY DEF IInv
<1> QED
  BY <1>1, Invariance, PTL

\* A Reason call never sends more than MaxTurns * MaxAttempts requests.
THEOREM RequestsAreBounded == Spec => []RequestsBounded
<1>1. IInv => RequestsBounded
  <2> SUFFICES ASSUME IInv, NEW c \in Callers
               PROVE  run[c].sent <= MaxTurns * MaxAttempts
    BY DEF RequestsBounded
  <2>1. Sound(run[c]) /\ run[c] \in RunType
    BY CallerFacts
  <2>2. /\ run[c].turn \in 0..(MaxTurns - 1) /\ run[c].tries \in 0..MaxAttempts
        /\ run[c].sent \in Nat /\ run[c].turn \in Nat
        /\ run[c].sent <= run[c].turn * MaxAttempts + run[c].tries
    BY <2>1, RunFields DEF Sound
  <2>3. run[c].sent <= (run[c].turn + 1) * MaxAttempts
    BY <2>2, TurnSpent
  <2>4. \A n, m, k \in Nat : n <= m => n * k <= m * k
    OBVIOUS
  <2>5. /\ (run[c].turn + 1) * MaxAttempts <= MaxTurns * MaxAttempts
        /\ (run[c].turn + 1) * MaxAttempts \in Nat /\ MaxTurns * MaxAttempts \in Nat
    BY <2>2, <2>4, Bounds
  <2> QED
    BY <2>2, <2>3, <2>5
<1> QED
  BY <1>1, Invariance, PTL

\* The loop implements the breaker's specification: each of its steps admits,
\* rejects or settles one caller as the breaker allows, lets time pass, or
\* leaves the breaker alone.
THEOREM RefinesBreaker == Spec => BreakerRefined
<1>1. Init => CB!Init
  BY DEF Init
<1>2. [Next]_vars => [CB!Next]_(CB!vars)
  <2> SUFFICES ASSUME [Next]_vars PROVE CB!Next \/ UNCHANGED CB!vars
    OBVIOUS
  <2>1. ASSUME NEW c \in Callers, CallerStep(c)
        PROVE  CB!Next \/ UNCHANGED CB!vars
    <3>1. CASE Enter(c) \/ TurnedAway(c)
      BY <3>1 DEF Enter, TurnedAway, CB!Next
    <3>2. CASE Answered(c) \/ RefusedByServer(c) \/ Exhausted(c)
      BY <3>2 DEF Answered, RefusedByServer, Exhausted, CB!Next, CB!Outcomes
    <3>3. CASE Abandoned(c)
      BY <3>3 DEF Abandoned, CtxOutcome, CB!Next, CB!Outcomes
    <3>4. CASE \/ Reason(c) \/ Send(c) \/ BackOff(c) \/ Wake(c) \/ PassOver(c)
               \/ Invoke(c) \/ ToolReturns(c) \/ Submit(c) \/ EndTurn(c)
               \/ CtxDies(c, "deadline") \/ CtxDies(c, "cancelled")
      BY <3>4 DEF Reason, Send, BackOff, Wake, PassOver, Invoke, ToolReturns,
                  Submit, EndTurn, CtxDies, cbVars, CB!vars
    <3> QED
      BY <2>1, <3>1, <3>2, <3>3, <3>4 DEF CallerStep
  <2>2. CASE Tick
    BY <2>2 DEF Tick, CB!Next
  <2>3. CASE UNCHANGED vars
    BY <2>3 DEF vars, CB!vars
  <2> QED
    BY <2>1, <2>2, <2>3 DEF Next
<1> QED
  BY <1>1, <1>2, PTL DEF Spec, BreakerRefined, CB!Spec

-----------------------------------------------------------------------------
(* What is proved of the breaker holds of the loops.                       *)

\* The settings satisfy what the breaker's theorems assume.
LEMMA Settings ==
    /\ CBP!IsFiniteSet(Callers)
    /\ MaxRequests \in Nat \ {0} /\ ConsecutiveLimit \in Nat \ {0}
    /\ MinVolume \in Nat \ {0} /\ Interval \in Nat \ {0}
    /\ Cooldown \in Nat \ {0} /\ WindowBound \in Nat \ {0}
    /\ ProbeRefunds \in (SUBSET BOOLEAN) \ {{}}
<1>1. CBP!IsFiniteSet(Callers)
  BY BreakerSettings DEF CBP!IsFiniteSet, IsFiniteSet
<1> QED
  BY <1>1, BreakerSettings

\* The breaker of the loops is the breaker of its proofs.
LEMMA SameBreaker == CB!Spec => CBP!Spec
<1>1. CB!Init => CBP!Init
  BY DEF CB!Init, CBP!Init, CB!NoCounts, CBP!NoCounts
<1>2. [CB!Next]_(CB!vars) => [CBP!Next]_(CBP!vars)
  BY Zenon
  DEF CB!Next, CBP!Next, CB!vars, CBP!vars, CB!Outcomes, CBP!Outcomes, CB!Admit, CBP!Admit,
      CB!Reject, CBP!Reject, CB!Complete, CBP!Complete, CB!Tick, CBP!Tick,
      CB!CurrentState, CBP!CurrentState, CB!Settle, CBP!Settle, CB!OnSuccess, CBP!OnSuccess,
      CB!OnFailure, CBP!OnFailure, CB!OnExclusion, CBP!OnExclusion, CB!OnRequest, CBP!OnRequest,
      CB!Admits, CBP!Admits, CB!SetState, CBP!SetState, CB!NewGeneration, CBP!NewGeneration,
      CB!RecordStateChange, CBP!RecordStateChange, CB!WindowOf, CBP!WindowOf, CB!NoCounts,
      CBP!NoCounts, CB!ReadyToTrip, CBP!ReadyToTrip, CB!CountFailure, CBP!CountFailure,
      CB!TrackFailAge, CBP!TrackFailAge
<1> QED
  BY <1>1, <1>2, PTL DEF CB!Spec, CBP!Spec

\* The breaker's fields have their types in every state of the loops.
LEMMA BreakerTyped == Spec => []CB!TypeOK
<1>1. CBP!Spec => []CBP!TypeOK
  BY Settings, CBP!TypeCorrect
<1>2. CBP!TypeOK => CB!TypeOK
  BY DEF CB!TypeOK, CBP!TypeOK, CB!BreakerType, CBP!BreakerType, CB!CountsType,
         CBP!CountsType, CB!States, CBP!States
<1> QED
  BY <1>1, <1>2, SameBreaker, RefinesBreaker, PTL DEF BreakerRefined

\* The loops share one breaker that keeps its promises whatever they do: its
\* gauge bounds who can still change it, it sheds load while it cools down,
\* only a probe of the cycle decides, and only fresh failures trip it.
THEOREM BreakerPromisesHold ==
    Spec => /\ []CB!GaugeBoundsLoad /\ CB!ShedsWhileOpen
            /\ CB!ProbeDecides /\ CB!TripsOnFreshFailures
<1>1. CBP!Spec => []CBP!GaugeBoundsLoad
  BY Settings, CBP!GaugeBoundsTheLoad
<1>2. CBP!Spec => CBP!ShedsWhileOpen
  BY Settings, CBP!OpenShedsLoad
<1>3. CBP!Spec => CBP!ProbeDecides
  BY Settings, CBP!OnlyProbesDecide
<1>4. CBP!Spec => CBP!TripsOnFreshFailures
  BY Settings, CBP!TripsAreEarned
<1>5. CBP!GaugeBoundsLoad => CB!GaugeBoundsLoad
  BY DEF CBP!GaugeBoundsLoad, CB!GaugeBoundsLoad, CBP!Cardinality, CB!Cardinality
<1> QED
  BY <1>1, <1>2, <1>3, <1>4, <1>5, SameBreaker, RefinesBreaker, PTL
  DEF BreakerRefined, CB!ShedsWhileOpen, CBP!ShedsWhileOpen, CB!ProbeDecides,
      CBP!ProbeDecides, CB!TripsOnFreshFailures, CBP!TripsOnFreshFailures,
      CB!MinFailuresToTrip, CBP!MinFailuresToTrip, CB!vars, CBP!vars

-----------------------------------------------------------------------------
(* What the callers still send while the breaker is open.                  *)

\* While the breaker is not open nothing is counted; what a caller inside
\* Execute sent since it opened belongs to its present turn; and some caller,
\* the one whose result tripped it, is outside and has sent nothing.
SendsInv ==
    /\ openSends \in [Callers -> Nat]
    /\ breaker.state # "open" => \A c \in Callers : openSends[c] = 0
    /\ \A c \in Callers : openSends[c] <= MaxAttempts
    /\ \A c \in Callers : call[c] = "inflight" => openSends[c] <= run[c].tries
    /\ breaker.state = "open" =>
           \E c \in Callers : call[c] # "inflight" /\ openSends[c] = 0

\* Looking at the clock never opens a breaker, and whoever is admitted finds
\* it not open.
LEMMA AdmitNotOpen ==
    ASSUME CB!TypeOK, NEW c \in Callers
    PROVE  /\ CB!Admit(c) => breaker'.state # "open"
           /\ CB!Reject(c) => (breaker'.state = "open" => breaker.state = "open")
<1> DEFINE b == CB!CurrentState(breaker)
<1>1. breaker \in CB!BreakerType
  BY DEF CB!TypeOK
<1>2. b \in CB!BreakerType /\ (b.state = "open" => breaker.state = "open")
  BY <1>1, BreakerSettings
  DEF CB!CurrentState, CB!SetState, CB!NewGeneration, CB!RecordStateChange, CB!WindowOf,
      CB!NoCounts, CB!BreakerType, CB!CountsType, CB!States
<1> HIDE DEF b
<1>3. CB!Admits(b) => CB!OnRequest(b, c).state # "open"
  BY <1>2 DEF CB!Admits, CB!OnRequest, CB!BreakerType, CB!CountsType
<1> QED
  BY <1>2, <1>3 DEF CB!Admit, CB!Reject, b

\* A step of the breaker that sends nothing keeps the bound, because the
\* breaker only opens when a caller leaves it.
LEMMA BreakerStepSends ==
    ASSUME SendsInv, CB!TypeOK, call \in CallType, NEW c \in Callers,
           TrackSends({}), \A d \in Callers \ {c} : run'[d] = run[d],
           \A d \in Callers : run'[d].tries \in Nat,
           CB!Admit(c) \/ CB!Reject(c) \/ \E o : CB!Complete(c, o)
    PROVE  SendsInv'
<1>1. /\ openSends' \in [Callers -> Nat]
      /\ breaker'.state # "open" => \A d \in Callers : openSends'[d] = 0
      /\ breaker'.state = "open" => \A d \in Callers : openSends'[d] = openSends[d]
  BY DEF SendsInv, TrackSends
<1>2. MaxAttempts \in Nat
  BY Bounds
<1>3. CASE breaker'.state # "open"
  <2>1. \A d \in Callers : openSends'[d] <= MaxAttempts /\ openSends'[d] <= run'[d].tries
    BY <1>1, <1>2, <1>3
  <2> QED
    BY <1>1, <1>3, <2>1 DEF SendsInv
<1>4. CASE breaker'.state = "open"
  <2>1. /\ call' \in CallType /\ call'[c] # "inflight"
        /\ \A d \in Callers \ {c} : call'[d] = call[d]
        /\ CB!Reject(c) \/ \E o : CB!Complete(c, o)
    BY <1>4, AdmitNotOpen, CallSteps
  <2>2. \E d \in Callers : call'[d] # "inflight" /\ openSends'[d] = 0
    <3>1. CASE breaker.state = "open"
      BY <1>1, <1>4, <2>1, <3>1 DEF SendsInv
    <3>2. CASE breaker.state # "open"
      BY <1>1, <1>4, <2>1, <3>2 DEF SendsInv
    <3> QED
      BY <3>1, <3>2
  <2>3. \A d \in Callers : call'[d] = "inflight" => openSends'[d] <= run'[d].tries
    BY <1>1, <1>4, <2>1 DEF SendsInv
  <2> QED
    BY <1>1, <1>4, <2>2, <2>3 DEF SendsInv
<1> QED
  BY <1>3, <1>4

\* A step that leaves breaker, history and the attempts of whoever is inside
\* alone keeps the bound.
LEMMA QuietStepSends ==
    ASSUME SendsInv, UNCHANGED <<cbVars, openSends>>,
           \A d \in Callers : call[d] = "inflight" => run'[d].tries = run[d].tries
    PROVE  SendsInv'
BY DEF SendsInv, cbVars

\* A request sent while the breaker is open is one of its turn's attempts.
LEMMA SendSends ==
    ASSUME SendsInv, IInv, NEW c \in Callers, Send(c)
    PROVE  SendsInv'
<1>1. /\ run[c] \in RunType /\ run[c].pc = "attempt" /\ run[c].tries < MaxAttempts
      /\ call[c] = "inflight" /\ UNCHANGED <<breaker, call>> /\ TrackSends({c})
  BY CallerFacts DEF Send, Sound, cbVars, InExecute
<1>2. run[c].tries \in Nat /\ MaxAttempts \in Nat
  BY <1>1, RunFields, Bounds
<1>3. run'[c].tries = run[c].tries + 1 /\ \A d \in Callers \ {c} : run'[d] = run[d]
  BY <1>1 DEF Send, Become, IInv, RunType
<1>4. /\ openSends' \in [Callers -> Nat]
      /\ openSends'[c] \in {0, openSends[c] + 1}
      /\ \A d \in Callers \ {c} : openSends'[d] \in {0, openSends[d]}
      /\ breaker.state = "open" => \A d \in Callers \ {c} : openSends'[d] = openSends[d]
      /\ breaker.state # "open" => \A d \in Callers : openSends'[d] = 0
  BY <1>1 DEF TrackSends, SendsInv
<1>5. openSends[c] <= run[c].tries /\ openSends[c] \in Nat
  BY <1>1 DEF SendsInv
<1>6. openSends'[c] <= run'[c].tries /\ openSends'[c] <= MaxAttempts
  BY <1>1, <1>2, <1>3, <1>4, <1>5
<1>7. \A d \in Callers \ {c} : /\ openSends'[d] <= MaxAttempts
                               /\ call[d] = "inflight" => openSends'[d] <= run'[d].tries
  <2> SUFFICES ASSUME NEW d \in Callers \ {c}
               PROVE  /\ openSends'[d] <= MaxAttempts
                      /\ call[d] = "inflight" => openSends'[d] <= run'[d].tries
    OBVIOUS
  <2>1. run[d].tries \in Nat /\ openSends[d] \in Nat
    BY CallerFacts, RunFields DEF SendsInv
  <2> QED
    BY <1>2, <1>3, <1>4, <2>1 DEF SendsInv
<1>8. breaker.state = "open" => \E d \in Callers : call[d] # "inflight" /\ openSends'[d] = 0
  BY <1>1, <1>4 DEF SendsInv
<1> QED
  BY <1>1, <1>4, <1>6, <1>7, <1>8 DEF SendsInv

\* The bound holds after every step.
LEMMA NextSends == SendsInv /\ IInv /\ IInv' /\ CB!TypeOK /\ [Next]_vars => SendsInv'
<1> SUFFICES ASSUME SendsInv, IInv, IInv', CB!TypeOK, [Next]_vars PROVE SendsInv'
  OBVIOUS
<1>0. /\ call \in CallType /\ run \in [Callers -> RunType]
      /\ \A d \in Callers : run'[d].tries \in Nat
  BY RunFields DEF IInv
<1>1. ASSUME NEW c \in Callers, CallerStep(c) PROVE SendsInv'
  <2>1. /\ \A d \in Callers \ {c} : run'[d] = run[d]
        /\ call[c] = "inflight" <=> run[c].pc \in InExecute
    BY <1>0, <1>1, CallerFacts
    DEF CallerStep, Reason, Enter, TurnedAway, Send, Answered, RefusedByServer, BackOff,
        Exhausted, Wake, Abandoned, PassOver, Invoke, ToolReturns, Submit, EndTurn, CtxDies,
        Goto, Return, Become
  <2>2. CASE \/ Enter(c) \/ TurnedAway(c) \/ Answered(c) \/ RefusedByServer(c)
             \/ Exhausted(c) \/ Abandoned(c)
    BY <1>0, <2>1, <2>2, BreakerStepSends
    DEF Enter, TurnedAway, Answered, RefusedByServer, Exhausted, Abandoned
  <2>3. CASE \/ Reason(c) \/ PassOver(c) \/ Invoke(c) \/ ToolReturns(c) \/ Submit(c) \/ EndTurn(c)
    BY <2>1, <2>3, QuietStepSends
    DEF Reason, PassOver, Invoke, ToolReturns, Submit, EndTurn, Returned, InExecute
  <2>4. CASE BackOff(c) \/ Wake(c) \/ CtxDies(c, "deadline") \/ CtxDies(c, "cancelled")
    <3>1. run'[c].tries = run[c].tries
      BY <1>0, <2>4 DEF BackOff, Wake, CtxDies, Goto, Become, RunType
    <3> QED
      BY <2>1, <2>4, <3>1, QuietStepSends DEF BackOff, Wake, CtxDies
  <2> QED
    BY <1>1, <2>2, <2>3, <2>4, SendSends DEF CallerStep
<1>2. CASE Tick
  <2>1. breaker'.state = breaker.state /\ UNCHANGED <<call, run, openSends>>
    BY <1>2 DEF Tick, CB!Tick, CB!TypeOK, CB!BreakerType
  <2> QED
    BY <2>1 DEF SendsInv
<1>3. CASE UNCHANGED vars
  BY <1>3 DEF vars, SendsInv
<1> QED
  BY <1>1, <1>2, <1>3 DEF Next

\* Initially nothing was sent and the breaker is closed.
LEMMA InitSends == Init => SendsInv
<1> SUFFICES ASSUME Init PROVE SendsInv
  OBVIOUS
<1>1. /\ openSends = [c \in Callers |-> 0] /\ breaker.state = "closed"
      /\ call = [c \in Callers |-> "idle"]
  BY DEF Init, CB!Init
<1>2. \A c \in Callers : run[c].tries = 0
  BY DEF Init, Idle
<1> QED
  BY <1>1, <1>2, Bounds DEF SendsInv

\* The loop's state and the breaker's have their types, whatever the callers do.
THEOREM TypeCorrect == Spec => []TypeOK
<1>1. SendsInv /\ IInv /\ CB!TypeOK => TypeOK
  BY DEF SendsInv, IInv, TypeOK
<1> QED
  BY <1>1, InitSends, NextSends, Invariance, BreakerTyped, PTL DEF Spec

\* While the breaker is open each caller sends at most the attempts of the
\* one turn it was in when the breaker opened, and the caller whose result
\* tripped it sends nothing, for any number of callers and attempts.
THEOREM OpenLoadIsBounded == Spec => []OpenLoadBounded
<1>1. SendsInv => OpenLoadBounded
  BY DEF SendsInv, OpenLoadBounded
<1> QED
  BY <1>1, InitSends, NextSends, Invariance, BreakerTyped, PTL DEF Spec

-----------------------------------------------------------------------------
(* Who is blamed for a request that was given up.                          *)

\* An excluded result neither raises the count of failures nor opens the
\* breaker, as of the window it falls in.
LEMMA ExcludedRecordsNoFailure ==
    ASSUME CB!TypeOK, NEW c, NEW refund
    PROVE  LET b == CB!CurrentState(breaker)
               d == CB!Settle(b, c, "excluded", refund)
           IN  /\ ~(d.counts.failures > b.counts.failures)
               /\ d.state = b.state
<1> DEFINE b == CB!CurrentState(breaker)
<1>1. breaker \in CB!BreakerType
  BY DEF CB!TypeOK
<1>2. b \in CB!BreakerType
  BY <1>1, BreakerSettings
  DEF CB!CurrentState, CB!SetState, CB!NewGeneration, CB!RecordStateChange, CB!WindowOf,
      CB!NoCounts, CB!BreakerType, CB!CountsType, CB!States
<1> HIDE DEF b
<1> DEFINE e == [b EXCEPT !.cohort = @ \ {c}]
           d == CB!Settle(b, c, "excluded", refund)
<1>3. e \in CB!BreakerType /\ e.counts = b.counts /\ e.state = b.state
  BY <1>2 DEF CB!BreakerType
<1>4. d = b \/ d = e \/ d = [e EXCEPT !.counts.requests = @ - 1]
  BY DEF CB!Settle, CB!OnExclusion
<1> HIDE DEF e
<1>5. /\ [e EXCEPT !.counts.requests = @ - 1].counts.failures = e.counts.failures
      /\ [e EXCEPT !.counts.requests = @ - 1].state = e.state
  BY <1>3 DEF CB!BreakerType, CB!CountsType
<1>6. d.counts.failures = b.counts.failures /\ d.state = b.state
  BY <1>3, <1>4, <1>5
<1>7. b.counts.failures \in Nat
  BY <1>2 DEF CB!BreakerType, CB!CountsType
<1> HIDE DEF d
<1>8. ~(d.counts.failures > b.counts.failures) /\ d.state = b.state
  BY <1>6, <1>7
<1> QED
  BY <1>8 DEF d, b

\* A caller whose operator has gone leaves the breaker with a new failure, or
\* opens it, only from the answer of the API itself: no attempt, wait or tool
\* call it gave up is counted against the API.
THEOREM CancelIsNobodysFault == Spec => CancelBlamesNobody
<1> DEFINE Blames(c) ==
        /\ run[c].ctx = "cancelled"
        /\ call[c] = "inflight"
        /\ call'[c] # "inflight"
        /\ FailureRecorded
        => run[c].pc = "sent"
<1>1. IInv /\ CB!TypeOK /\ [Next]_vars => \A c \in Callers : Blames(c)
  <2> SUFFICES ASSUME IInv, CB!TypeOK, [Next]_vars, NEW c \in Callers,
                      run[c].ctx = "cancelled", call[c] = "inflight", call'[c] # "inflight",
                      FailureRecorded,
                      run[c].pc # "sent"
               PROVE  FALSE
    OBVIOUS
  <2>0. call \in CallType
    BY DEF IInv
  <2>1. ~(Tick \/ UNCHANGED vars)
    BY DEF Tick, CB!Tick, vars
  <2>2. PICK d \in Callers : CallerStep(d)
    BY <2>1 DEF Next
  <2>3. ~UNCHANGED call
    OBVIOUS
  <2>4. \/ Enter(d) \/ TurnedAway(d) \/ Answered(d) \/ RefusedByServer(d)
        \/ Exhausted(d) \/ Abandoned(d)
    BY <2>2, <2>3
    DEF CallerStep, Reason, Send, BackOff, Wake, PassOver, Invoke, ToolReturns, Submit,
        EndTurn, CtxDies, cbVars
  <2>5. d = c
    BY <2>0, <2>4, CallSteps
    DEF Enter, TurnedAway, Answered, RefusedByServer, Exhausted, Abandoned
  <2>6. Abandoned(c)
    BY <2>4, <2>5
    DEF Enter, TurnedAway, Answered, RefusedByServer, Exhausted, CB!Admit, CB!Reject
  <2>7. CB!Complete(c, "excluded")
    BY <2>6 DEF Abandoned, CtxOutcome
  <2>8. PICK refund \in ProbeRefunds :
            breaker' = CB!Settle(CB!CurrentState(breaker), c, "excluded", refund)
    BY <2>7 DEF CB!Complete
  <2> QED
    BY <2>8, ExcludedRecordsNoFailure DEF FailureRecorded
<1> QED
  BY <1>1, Invariance, BreakerTyped, PTL DEF Spec, CancelBlamesNobody
=============================================================================
