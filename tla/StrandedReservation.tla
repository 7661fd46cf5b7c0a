------------------------ MODULE StrandedReservation ------------------------
(***************************************************************************)
(* DetectStrandedReservation.Execute (internal/application/usecases/       *)
(* stranded_reservation.go) and the rule it applies, Evaluate (internal/   *)
(* domain/policy/stranded_reservation.go): expired leases of one task type *)
(* correlated with a shortfall of one SKU into a revoke_reservation or a   *)
(* hold.                                                                   *)
(*                                                                         *)
(* The three readings are taken one after another from two contexts that   *)
(* go on working meanwhile, so a reply is about several moments at once.   *)
(* `since` remembers what those contexts went through since the latest     *)
(* request: it is what the properties hold the reply against.              *)
(***************************************************************************)
EXTENDS Integers, Sequences, FiniteSets

CONSTANTS
    TaskTypes,     \* the task types TaskType.Valid knows
    AlienTypes,    \* other strings a caller or a context may use
    Units,         \* units of stock that can be reserved in the bin
    OwnSku,        \* those of the SKU under suspicion
    Reservations,  \* reservations a caller may name
    Thresholds,    \* values of MinUsableThreshold
    MaxUsable,     \* bound: usable units of the SKU
    None           \* Go's nil, and the empty string

Actions == {"hold", "revoke_reservation"}

ASSUME StrandedAssumption ==
    /\ IsFiniteSet(Units) /\ OwnSku \subseteq Units
    /\ Thresholds \subseteq Int /\ MaxUsable \in Nat
    /\ TaskTypes \cap AlienTypes = {}
    /\ None \notin Reservations \cup Int \cup Actions
    /\ \A types \in SUBSET (TaskTypes \cup AlienTypes) : types # None

VARIABLES
    leases,    \* fulfillment-execution: task types with an expired lease
    usable,    \* inventory-storage: usable units of the SKU, over all bins
    reserved,  \* inventory-storage: the reserved units of the bin
    pc,        \* where Execute is
    req,       \* its request
    inputs,    \* policy.Inputs as gathered so far
    reply,     \* what Execute returned
    since      \* history: what the contexts went through since the request

vars == <<leases, usable, reserved, pc, req, inputs, reply, since>>
world == <<leases, usable, reserved>>

Types == TaskTypes \cup AlienTypes
Requests == [type : Types, sku : BOOLEAN, bin : BOOLEAN,
             reservation : Reservations \cup {None}, threshold : Thresholds]
NoInputs == [stuck |-> None, availability |-> None, bin |-> None]
NoReply == [error |-> FALSE, detected |-> FALSE, action |-> None,
            reservation |-> None, evidence |-> <<>>, freed |-> None]

-----------------------------------------------------------------------------
(* Evaluate.                                                               *)

\* stuckByType: the expired leases of the request's own type.
StuckByType(tasks, type) == {t \in tasks : t = type}

HoldException(detected, reservation, evidence) ==
    [error |-> FALSE, detected |-> detected, action |-> "hold",
     reservation |-> reservation, evidence |-> evidence, freed |-> None]

RevokeException(r, in, evidence) ==
    [error |-> FALSE, detected |-> TRUE, action |-> "revoke_reservation",
     reservation |-> r.reservation, evidence |-> evidence, freed |-> in.bin]

\* Both signals correlate: a write is recommended only for a named candidate
\* and with the blast radius at hand.
RankRevoke(r, in, evidence) ==
    IF r.reservation = None
    THEN HoldException(TRUE, None, Append(evidence, "policy"))
    ELSE IF in.bin = None
    THEN HoldException(TRUE, r.reservation, Append(evidence, "bin"))
    ELSE RevokeException(r, in, Append(evidence, "bin"))

\* Mutant: the shortfall must be strict.
CorrelateBelow(r, in) ==
    IF in.availability = None \/ in.availability >= r.threshold
    THEN HoldException(FALSE, None, <<"stuck", "availability">>)
    ELSE RankRevoke(r, in, <<"stuck", "availability">>)

\* Mutant: the missing reading leaves no entry in the trail.
CorrelateSilently(r, in) ==
    IF in.availability = None
    THEN HoldException(FALSE, None, <<"stuck">>)
    ELSE IF in.availability > r.threshold
    THEN HoldException(FALSE, None, <<"stuck", "availability">>)
    ELSE RankRevoke(r, in, <<"stuck", "availability">>)

\* Leases of the type expired: is the SKU short as well?
Correlate(r, in) ==
    IF in.availability = None \/ in.availability > r.threshold
    THEN HoldException(FALSE, None, <<"stuck", "availability">>)
    ELSE RankRevoke(r, in, <<"stuck", "availability">>)

Evaluate(r, in) ==
    IF r.type \notin TaskTypes
    THEN [NoReply EXCEPT !.error = TRUE]
    ELSE IF in.stuck = None \/ StuckByType(in.stuck, r.type) = {}
    THEN HoldException(FALSE, None, <<"stuck">>)
    ELSE Correlate(r, in)

-----------------------------------------------------------------------------
(* Execute.                                                                *)

\* Mutant: the lines of every SKU are summed.
FreedAllSkus(bin) == Cardinality(bin)

\* toBlastRadius: how many units of the SKU the bin's lines show as reserved.
Freed(bin) == Cardinality(bin \cap OwnSku)

Now == [stuck |-> leases, always |-> leases, low |-> usable, high |-> usable,
        bins |-> {reserved}]

\* Mutant: the inputs of the previous request are still there.
RequestKeepingInputs(r) ==
    /\ pc = "ready"
    /\ pc' = "stuck"
    /\ req' = r
    /\ reply' = NoReply
    /\ since' = Now
    /\ UNCHANGED <<world, inputs>>

Request(r) ==
    /\ pc = "ready"
    /\ pc' = "stuck"
    /\ req' = r
    /\ inputs' = NoInputs
    /\ reply' = NoReply
    /\ since' = Now
    /\ UNCHANGED world

\* A reading that was taken, or whose call failed.
Gather(tool, reading, next) ==
    /\ pc = tool
    /\ pc' = next
    /\ \/ inputs' = [inputs EXCEPT ![tool] = reading]
       \/ UNCHANGED inputs
    /\ UNCHANGED <<world, req, reply, since>>

\* A reading that is not asked for.
Skip(tool, next) ==
    /\ pc = tool
    /\ pc' = next
    /\ UNCHANGED <<world, req, inputs, reply, since>>

DiagnoseStuckTasks == Gather("stuck", leases, "availability")

CheckAvailability ==
    IF req.sku THEN Gather("availability", usable, "bin")
               ELSE Skip("availability", "bin")

GetBinOccupancy ==
    IF req.reservation # None /\ req.bin
    THEN Gather("bin", Freed(reserved), "evaluate")
    ELSE Skip("bin", "evaluate")

Reply ==
    /\ pc = "evaluate"
    /\ pc' = "ready"
    /\ reply' = Evaluate(req, inputs)
    /\ UNCHANGED <<world, req, inputs, since>>

\* The contexts at work, whatever Execute does: leases expire and are renewed.
LeasesChange ==
    /\ leases' \in SUBSET Types
    /\ since' = [since EXCEPT !.stuck = @ \cup leases', !.always = @ \cap leases']
    /\ UNCHANGED <<usable, reserved, pc, req, inputs, reply>>

\* Stock is received, picked, reserved and released, in this bin or another.
StockMoves ==
    /\ usable' \in 0..MaxUsable
    /\ reserved' \in SUBSET Units
    /\ since' = [since EXCEPT !.low = IF usable' < @ THEN usable' ELSE @,
                              !.high = IF usable' > @ THEN usable' ELSE @,
                              !.bins = @ \cup {reserved'}]
    /\ UNCHANGED <<leases, pc, req, inputs, reply>>

Init ==
    /\ leases \in SUBSET Types
    /\ usable \in 0..MaxUsable
    /\ reserved \in SUBSET Units
    /\ pc = "ready"
    /\ req \in Requests
    /\ inputs = NoInputs
    /\ reply = NoReply
    /\ since = Now

Next ==
    \/ \E r \in Requests : Request(r)
    \/ DiagnoseStuckTasks \/ CheckAvailability \/ GetBinOccupancy \/ Reply
    \/ LeasesChange \/ StockMoves

Spec == Init /\ [][Next]_vars

-----------------------------------------------------------------------------
(* What is promised of a reply.                                            *)

Tools == {"stuck", "availability", "bin"}
Returned == pc = "ready" /\ reply # NoReply

\* A reply Execute can build and readings the contexts can give.
TypeOK ==
    /\ leases \subseteq Types /\ usable \in 0..MaxUsable /\ reserved \subseteq Units
    /\ pc \in Tools \cup {"ready", "evaluate"}
    /\ req \in Requests
    /\ inputs.stuck = None \/ inputs.stuck \subseteq Types
    /\ inputs.availability \in 0..MaxUsable \cup {None}
    /\ inputs.bin \in 0..Cardinality(OwnSku) \cup {None}
    /\ reply.error \in BOOLEAN /\ reply.detected \in BOOLEAN
    /\ reply.action \in Actions \cup {None}
    /\ reply.reservation \in Reservations \cup {None}
    /\ reply.evidence \in Seq(Tools \cup {"policy"})
    /\ reply.freed \in 0..Cardinality(OwnSku) \cup {None}

\* Evaluate, revokeException: whatever the contexts do between the readings,
\* a revoke is recommended only if during this very request a lease of the
\* type had expired and the SKU was short, it names the caller's reservation,
\* and the quantity it would free is what the bin held of this SKU at some
\* moment of the request.
RevokeGrounded ==
    Returned /\ reply.action = "revoke_reservation" =>
        /\ req.type \in since.stuck
        /\ since.low <= req.threshold
        /\ reply.reservation = req.reservation /\ req.reservation # None
        /\ \E b \in since.bins : reply.freed = Cardinality(b \cap OwnSku)

\* Execute, Evaluate: a reservation that stays stranded for the whole request
\* is detected unless a reading failed or was not asked for, and with a
\* candidate and its bin the revoke is recommended.
StrandedIsSeen ==
    /\ Returned /\ req.type \in TaskTypes
    /\ req.type \in since.always /\ since.high <= req.threshold
    /\ inputs.stuck # None /\ inputs.availability # None
    => /\ reply.detected
       /\ inputs.bin # None => reply.action = "revoke_reservation"

\* The last reading the trail names is the one that decided.
Decisive ==
    CASE reply.evidence[Len(reply.evidence)] = "stuck" ->
            inputs.stuck = None \/ req.type \notin inputs.stuck
      [] reply.evidence[Len(reply.evidence)] = "availability" ->
            inputs.availability = None \/ inputs.availability > req.threshold
      [] reply.evidence[Len(reply.evidence)] = "policy" -> req.reservation = None
      [] OTHER -> inputs.bin = None

\* Evaluate's degrade path: every accepted request returns a trail, and a hold
\* is explained by it: its last entry names the reading that was missing or
\* did not correlate, so a held correlation and a missing context are never
\* mistaken for each other.
HoldExplained ==
    Returned /\ ~reply.error =>
        /\ reply.evidence # <<>>
        /\ reply.action = "hold" => Decisive
        /\ reply.detected => {"stuck", "availability"} \subseteq
                             {reply.evidence[i] : i \in 1..Len(reply.evidence)}
=============================================================================
