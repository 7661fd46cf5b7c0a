------------------------------ MODULE Reasoner ------------------------------
(***************************************************************************)
(* The tool-use loop of internal/adapters/outbound/llm/anthropic           *)
(* (Reason, processAssistantTurn, executeToolCall, call, retryingRequest,  *)
(* doRequest) run by several concurrent operators' requests, composed with *)
(* the circuit breaker they share.                                         *)
(*                                                                         *)
(* Each turn asks the model once, through the breaker; inside the breaker  *)
(* one call is retried up to MaxAttempts times.  The answer is a list of   *)
(* content blocks, walked in order: prose is passed over, an un-offered    *)
(* tool or bad arguments are refused, an offered tool is invoked, and      *)
(* submit_plan ends the loop.  What the blocks say, and the audit trail of *)
(* tool calls, is left out: no branch of the loop depends on it.           *)
(*                                                                         *)
(* The contexts are folded into one per Reason call: it dies once, by its  *)
(* deadline (the shorter of the inbound one, Config.Timeout and            *)
(* maxCallTimeout) or because the operator went away, and stays dead.      *)
(***************************************************************************)
EXTENDS Naturals, FiniteSets

CONSTANTS
    Callers, MaxRequests, ConsecutiveLimit, MinVolume, Interval, Cooldown,
    ProbeRefunds, WindowBound,  \* of CircuitBreaker
    MaxTurns,      \* Config.MaxTurns
    MaxAttempts,   \* maxRetryAttempts
    MaxBlocks      \* bound: content blocks per answer that are not the last one

ASSUME ReasonerAssumption ==
    /\ MaxTurns \in Nat \ {0}
    /\ MaxAttempts \in Nat \ {0}
    /\ MaxBlocks \in Nat

\* What CircuitBreaker assumes of its settings.
ASSUME BreakerSettings ==
    /\ IsFiniteSet(Callers)
    /\ {MaxRequests, ConsecutiveLimit, MinVolume, Interval, Cooldown, WindowBound} \subseteq Nat \ {0}
    /\ ProbeRefunds \in (SUBSET BOOLEAN) \ {{}}

VARIABLES
    breaker, call, failAge,  \* of CircuitBreaker
    run,       \* each caller's latest Reason call
    openSends  \* history: requests each caller sent since the breaker last opened

CB == INSTANCE CircuitBreaker

cbVars == <<breaker, call, failAge>>
vars == <<breaker, call, failAge, run, openSends>>

InExecute == {"attempt", "sent", "backoff"}  \* inside breaker.Execute
Returned == {"idle", "plan", "error"}        \* outside Reason

\* `tries` counts this turn's attempts that reached the network, `sent`
\* those of the whole Reason call.
Idle == [pc |-> "idle", turn |-> 0, tries |-> 0, blocks |-> 0, sent |-> 0, ctx |-> "live"]

-----------------------------------------------------------------------------
(* Steps of one Reason call.                                               *)

Become(c, r) == run' = [run EXCEPT ![c] = r]

Goto(c, pc) == Become(c, [run[c] EXCEPT !.pc = pc])

\* A returned call forgets everything but its result.
Return(c, result) == Become(c, [Idle EXCEPT !.pc = result])

\* The history variable: sends counted while the breaker is open.
TrackSends(senders) ==
    openSends' = [c \in Callers |->
                     IF breaker'.state # "open" THEN 0
                     ELSE IF c \in senders THEN openSends[c] + 1 ELSE openSends[c]]

Reason(c) ==
    /\ run[c].pc \in Returned
    /\ Goto(c, "turn")
    /\ UNCHANGED <<cbVars, openSends>>

\* `call` enters the breaker, which admits the turn ...
Enter(c) ==
    /\ run[c].pc = "turn"
    /\ CB!Admit(c)
    /\ Goto(c, "attempt")
    /\ TrackSends({})

\* ... or rejects it, and Reason returns the rejection unchanged.
TurnedAway(c) ==
    /\ run[c].pc = "turn"
    /\ CB!Reject(c)
    /\ Return(c, "error")
    /\ TrackSends({})

\* doRequest puts the request on the wire; net/http refuses a dead context.
Send(c) ==
    /\ run[c].pc = "attempt"
    /\ run[c].ctx = "live"
    /\ Become(c, [run[c] EXCEPT !.pc = "sent", !.tries = @ + 1, !.sent = @ + 1])
    /\ UNCHANGED cbVars
    /\ TrackSends({c})

\* A 2xx answer that decodes.
Answered(c) ==
    /\ run[c].pc = "sent"
    /\ CB!Complete(c, "ok")
    /\ Become(c, [run[c] EXCEPT !.pc = "blocks", !.blocks = 0])
    /\ TrackSends({})

\* A 4xx status or a body that does not decode: backoff.Permanent.
RefusedByServer(c) ==
    /\ run[c].pc = "sent"
    /\ CB!Complete(c, "failed")
    /\ Return(c, "error")
    /\ TrackSends({})

\* Mutant: retries without WithMaxRetries.
BackOffForever(c) ==
    /\ run[c].pc = "sent"
    /\ run[c].ctx = "live"
    /\ Goto(c, "backoff")
    /\ UNCHANGED <<cbVars, openSends>>

\* Mutant: the breaker sits inside the retry, so every attempt is a sample.
BackOffReported(c) ==
    /\ run[c].pc = "sent"
    /\ run[c].ctx = "live"
    /\ run[c].tries < MaxAttempts
    /\ Goto(c, "backoff")
    /\ breaker' = CB!Settle(CB!CurrentState(breaker), c, "failed", FALSE)
    /\ UNCHANGED <<call, failAge>>
    /\ TrackSends({})

\* A 5xx status or a transport failure, with attempts left ...
BackOff(c) ==
    /\ run[c].pc = "sent"
    /\ run[c].ctx = "live"
    /\ run[c].tries < MaxAttempts
    /\ Goto(c, "backoff")
    /\ UNCHANGED <<cbVars, openSends>>

\* ... or with none left.
Exhausted(c) ==
    /\ run[c].pc = "sent"
    /\ run[c].ctx = "live"
    /\ run[c].tries >= MaxAttempts
    /\ CB!Complete(c, "failed")
    /\ Return(c, "error")
    /\ TrackSends({})

\* Mutant: every attempt starts the retry budget afresh.
WakeAfresh(c) ==
    /\ run[c].pc = "backoff"
    /\ Become(c, [run[c] EXCEPT !.pc = "attempt", !.tries = 0])
    /\ UNCHANGED <<cbVars, openSends>>

\* The backoff timer fires, perhaps just as the context dies.
Wake(c) ==
    /\ run[c].pc = "backoff"
    /\ Goto(c, "attempt")
    /\ UNCHANGED <<cbVars, openSends>>

\* Mutant: no IsExcluded.
CtxOutcomeAlwaysFailed(ctx) == "failed"

\* IsExcluded: what the breaker makes of the context's own error.
CtxOutcome(ctx) == IF ctx = "cancelled" THEN "excluded" ELSE "failed"

\* Mutant: a cancelled wait returns around the breaker.
AbandonedUnreported(c) ==
    /\ run[c].pc \in InExecute
    /\ run[c].ctx # "live"
    /\ Return(c, "error")
    /\ UNCHANGED <<cbVars, openSends>>

\* Mutant: the HTTP request is built without the context.
AbandonedBetweenRequests(c) ==
    /\ run[c].pc \in InExecute \ {"sent"}
    /\ run[c].ctx # "live"
    /\ CB!Complete(c, CtxOutcome(run[c].ctx))
    /\ Return(c, "error")
    /\ TrackSends({})

\* A dead context ends the attempt, the request or the wait: the retry loop
\* stops and returns the context's error.
Abandoned(c) ==
    /\ run[c].pc \in InExecute
    /\ run[c].ctx # "live"
    /\ CB!Complete(c, CtxOutcome(run[c].ctx))
    /\ Return(c, "error")
    /\ TrackSends({})

\* The inbound request is cancelled, or a deadline passes.
CtxDies(c, why) ==
    /\ run[c].pc \notin Returned
    /\ run[c].ctx = "live"
    /\ Become(c, [run[c] EXCEPT !.ctx = why])
    /\ UNCHANGED <<cbVars, openSends>>

\* processAssistantTurn passes over prose and refuses what it cannot run.
PassOver(c) ==
    /\ run[c].pc = "blocks"
    /\ run[c].blocks < MaxBlocks
    /\ Become(c, [run[c] EXCEPT !.blocks = @ + 1])
    /\ UNCHANGED <<cbVars, openSends>>

\* executeToolCall: the loop waits for an upstream context to answer.
Invoke(c) ==
    /\ run[c].pc = "blocks"
    /\ run[c].blocks < MaxBlocks
    /\ Become(c, [run[c] EXCEPT !.pc = "tool", !.blocks = @ + 1])
    /\ UNCHANGED <<cbVars, openSends>>

\* A tool's error is echoed to the model like its result.
ToolReturns(c) ==
    /\ run[c].pc = "tool"
    /\ Goto(c, "blocks")
    /\ UNCHANGED <<cbVars, openSends>>

\* submit_plan, whose input decodes or fails Reason.
Submit(c) ==
    /\ run[c].pc = "blocks"
    /\ \E result \in {"plan", "error"} : Return(c, result)
    /\ UNCHANGED <<cbVars, openSends>>

\* Mutant: the loop has no turn limit.
EndTurnUnbounded(c) ==
    /\ run[c].pc = "blocks"
    /\ Become(c, [run[c] EXCEPT !.pc = "turn", !.turn = @ + 1, !.tries = 0])
    /\ UNCHANGED <<cbVars, openSends>>

\* The answer held no submit_plan: a tool result or a nudge goes back, for
\* as long as the loop has turns.
EndTurn(c) ==
    /\ run[c].pc = "blocks"
    /\ IF run[c].turn + 1 < MaxTurns
       THEN Become(c, [run[c] EXCEPT !.pc = "turn", !.turn = @ + 1, !.tries = 0])
       ELSE Return(c, "error")
    /\ UNCHANGED <<cbVars, openSends>>

Tick ==
    /\ CB!Tick
    /\ UNCHANGED <<run, openSends>>

Init ==
    /\ CB!Init
    /\ run = [c \in Callers |-> Idle]
    /\ openSends = [c \in Callers |-> 0]

CallerStep(c) ==
    \/ Reason(c) \/ Enter(c) \/ TurnedAway(c)
    \/ Send(c) \/ Answered(c) \/ RefusedByServer(c)
    \/ BackOff(c) \/ Exhausted(c) \/ Wake(c) \/ Abandoned(c)
    \/ PassOver(c) \/ Invoke(c) \/ ToolReturns(c) \/ Submit(c) \/ EndTurn(c)
    \/ CtxDies(c, "deadline") \/ CtxDies(c, "cancelled")

Next == Tick \/ \E c \in Callers : CallerStep(c)

Spec == Init /\ [][Next]_vars

\* Time passes and deadlines fall; code that can run does; an MCP call gives
\* up with its context.  The model's API is not assumed to answer.  Execute
\* always decides at once: strong fairness there only undoes WindowBound,
\* which may disable Enter until the window ends.
Fairness ==
    /\ WF_vars(Tick)
    /\ \A c \in Callers :
        /\ WF_vars(CtxDies(c, "deadline"))
        /\ SF_vars(Enter(c) \/ TurnedAway(c))
        /\ WF_vars(Abandoned(c))
        /\ WF_vars(ToolReturns(c))
        /\ WF_vars(PassOver(c) \/ Invoke(c) \/ Submit(c) \/ EndTurn(c))

FairSpec == Spec /\ Fairness

-----------------------------------------------------------------------------
(* Properties.                                                             *)

RunType == [pc : InExecute \cup Returned \cup {"turn", "blocks", "tool"},
            turn : 0..(MaxTurns - 1), tries : 0..MaxAttempts, blocks : 0..MaxBlocks,
            sent : Nat, ctx : {"live", "deadline", "cancelled"}]

\* Type invariant: the loop index, the attempts of a turn and the blocks of
\* an answer stay within the bounds the loops set.
TypeOK ==
    /\ CB!TypeOK
    /\ run \in [Callers -> RunType]
    /\ openSends \in [Callers -> Nat]

\* A Reason call costs at most MaxTurns * MaxAttempts paid requests, however
\* the model and the network behave ("don't over-retry a paid LLM call").
RequestsBounded ==
    \A c \in Callers : run[c].sent <= MaxTurns * MaxAttempts

\* Every way out of Execute - answer, rejection by the server, exhausted
\* retries, dead context - reports its result: a caller counts as in flight
\* exactly while it is inside, so no probe slot is lost with its caller.
EveryExitReports ==
    \A c \in Callers : call[c] = "inflight" <=> run[c].pc \in InExecute

\* An open breaker sheds load although calls admitted earlier go on
\* retrying: until it lets a probe through, each caller sends at most the
\* attempts of one turn, and the one that tripped it sends nothing.
OpenLoadBounded ==
    /\ \A c \in Callers : openSends[c] <= MaxAttempts
    /\ breaker.state = "open" => \E c \in Callers : openSends[c] = 0

\* An operator who goes away never counts against the model's API, in
\* whatever attempt, wait or request it happens; only an answer of the API
\* itself still does ("the caller giving up is not the dependency's fault").
\* A failure shows as a count raised or as a breaker opened by it, which
\* clears the counts, both as of the window its result falls in.
FailureRecorded ==
    LET b == CB!CurrentState(breaker)
    IN  \/ breaker'.counts.failures > b.counts.failures
        \/ breaker'.state = "open" /\ b.state # "open"

CancelBlamesNobody ==
    [][\A c \in Callers :
         /\ run[c].ctx = "cancelled"
         /\ call[c] = "inflight"
         /\ call'[c] # "inflight"
         /\ FailureRecorded
         => run[c].pc = "sent"]_vars

\* The loop uses the breaker as the breaker's specification allows: one
\* admission and one result per turn, whatever happens to the attempts in
\* between.  What is proved of CircuitBreaker holds here through this.
BreakerRefined == CB!Spec

\* Every Reason call ends, with a plan or with the error that sends the use
\* case to its fallback, even when the model's API never answers.
ReasonEnds ==
    \A c \in Callers : run[c].pc \notin Returned ~> run[c].pc \in Returned

\* ADR-0011: the breaker's counts are "an honest measure of the ONE
\* dependency it is named after", so a turn after the first, when the loop's
\* other work may have used the deadline up, counts as a failure only if a
\* request of its own was sent to that dependency.
HonestCounts ==
    [][\A c \in Callers :
         /\ run[c].turn > 0
         /\ call[c] = "inflight"
         /\ call'[c] # "inflight"
         /\ breaker'.counts.failures > breaker.counts.failures
         => run[c].tries > 0]_vars
=============================================================================
