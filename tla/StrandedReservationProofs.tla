--------------------- MODULE StrandedReservationProofs ---------------------
(***************************************************************************)
(* What a stranded-reservation reply says holds for every set of task      *)
(* types, every bin and every threshold.  No promise is inductive: while   *)
(* the readings are gathered one must know that each of them was true of   *)
(* its context at some moment since the request.                           *)
(***************************************************************************)
EXTENDS StrandedReservation, FiniteSetTheorems, TLAPS

InputsType == [stuck : (SUBSET Types) \cup {None},
               availability : Int \cup {None},
               bin : {Freed(b) : b \in SUBSET Units} \cup {None}]
SinceType == [stuck : SUBSET Types, always : SUBSET Types, low : Int, high : Int,
              bins : SUBSET SUBSET Units]

Shapes ==
    /\ leases \in SUBSET Types /\ usable \in Int /\ reserved \in SUBSET Units
    /\ req \in Requests /\ inputs \in InputsType /\ since \in SinceType

\* The history contains the present.
PresentKnown ==
    /\ leases \subseteq since.stuck /\ since.always \subseteq leases
    /\ since.low <= usable /\ usable <= since.high
    /\ reserved \in since.bins

\* Each reading was true of its context at some moment since the request, and
\* the bin was read for a candidate only.
ReadingsTrue ==
    /\ inputs.stuck # None =>
           inputs.stuck \subseteq since.stuck /\ since.always \subseteq inputs.stuck
    /\ inputs.availability # None =>
           since.low <= inputs.availability /\ inputs.availability <= since.high
    /\ inputs.bin # None =>
           req.reservation # None /\ \E b \in since.bins : inputs.bin = Freed(b)

IInv == Shapes /\ PresentKnown /\ ReadingsTrue /\ RevokeGrounded /\ StrandedIsSeen

-----------------------------------------------------------------------------
(* The rule.                                                               *)

\* Evaluate: what a revoke presupposes and carries.
LEMMA RevokeNeeds ==
    ASSUME NEW r, NEW in, Evaluate(r, in).action = "revoke_reservation"
    PROVE  /\ in.stuck # None /\ r.type \in in.stuck
           /\ in.availability # None /\ ~(in.availability > r.threshold)
           /\ r.reservation # None /\ in.bin # None
           /\ Evaluate(r, in).reservation = r.reservation
           /\ Evaluate(r, in).freed = in.bin
  <1>1. r.type \in TaskTypes
    <2> SUFFICES ASSUME r.type \notin TaskTypes PROVE FALSE
      OBVIOUS
    <2> Evaluate(r, in).action = None
      BY DEF Evaluate, NoReply
    <2> QED
      BY StrandedAssumption DEF Actions
  <1>2. in.stuck # None /\ StuckByType(in.stuck, r.type) # {}
    BY <1>1 DEF Evaluate, HoldException
  <1>3. Evaluate(r, in) = Correlate(r, in)
    BY <1>1, <1>2 DEF Evaluate
  <1>4. in.availability # None /\ ~(in.availability > r.threshold)
    BY <1>3 DEF Correlate, HoldException
  <1>5. Evaluate(r, in) = RankRevoke(r, in, <<"stuck", "availability">>)
    BY <1>3, <1>4 DEF Correlate
  <1>6. r.reservation # None /\ in.bin # None
    BY <1>5 DEF RankRevoke, HoldException
  <1>7. Evaluate(r, in) = RevokeException(r, in, Append(<<"stuck", "availability">>, "bin"))
    BY <1>5, <1>6 DEF RankRevoke
  <1> QED
    BY <1>2, <1>4, <1>6, <1>7 DEF RevokeException, StuckByType

\* Evaluate: readings that correlate are detected, and with the blast radius
\* of a named candidate the revoke is recommended.
LEMMA CorrelationIsDetected ==
    ASSUME NEW r, NEW in, r.type \in TaskTypes,
           in.stuck # None, r.type \in in.stuck,
           in.availability # None, ~(in.availability > r.threshold)
    PROVE  /\ Evaluate(r, in).detected
           /\ r.reservation # None /\ in.bin # None =>
                  Evaluate(r, in).action = "revoke_reservation"
  <1>1. Evaluate(r, in) = RankRevoke(r, in, <<"stuck", "availability">>)
    BY DEF Evaluate, Correlate, StuckByType
  <1>2. CASE r.reservation = None
    BY <1>1, <1>2 DEF RankRevoke, HoldException
  <1>3. CASE r.reservation # None /\ in.bin = None
    BY <1>1, <1>3 DEF RankRevoke, HoldException
  <1>4. CASE r.reservation # None /\ in.bin # None
    BY <1>1, <1>4 DEF RankRevoke, RevokeException
  <1> QED
    BY <1>2, <1>3, <1>4

-----------------------------------------------------------------------------
(* The steps.                                                              *)

\* A history that starts now.
LEMMA FreshHistory ==
    ASSUME leases \in SUBSET Types, usable \in Int, reserved \in SUBSET Units
    PROVE  Now \in SinceType /\ NoInputs \in InputsType
  <1>1. {reserved} \in SUBSET SUBSET Units
    OBVIOUS
  <1>2. Now \in SinceType
    BY <1>1 DEF Now, SinceType
  <1>3. NoInputs \in InputsType
    BY DEF NoInputs, InputsType
  <1> QED
    BY <1>2, <1>3

\* A new request starts with no readings and no past.
LEMMA RequestPreserves ==
    ASSUME IInv, NEW r \in Requests, Request(r)  PROVE IInv'
  <1> USE DEF IInv, Request, world
  <1>1. Shapes'
    BY FreshHistory DEF Shapes
  <1>2. PresentKnown'
    BY DEF PresentKnown, Now, Shapes
  <1>3. ReadingsTrue'
    BY DEF ReadingsTrue, NoInputs
  <1>4. RevokeGrounded' /\ StrandedIsSeen'
    BY DEF RevokeGrounded, StrandedIsSeen, Returned
  <1> QED
    BY <1>1, <1>2, <1>3, <1>4

\* A reading is true of the present, which the history contains.
LEMMA GatheringPreserves ==
    ASSUME IInv, DiagnoseStuckTasks \/ CheckAvailability \/ GetBinOccupancy
    PROVE  IInv'
  <1> USE DEF IInv, world
  <1>1. /\ UNCHANGED <<leases, usable, reserved, req, since>>
        /\ pc' # "ready"
        /\ \/ inputs' = [inputs EXCEPT !.stuck = leases]
           \/ inputs' = [inputs EXCEPT !.availability = usable]
           \/ inputs' = [inputs EXCEPT !.bin = Freed(reserved)] /\ req.reservation # None
           \/ inputs' = inputs
    BY DEF DiagnoseStuckTasks, CheckAvailability, GetBinOccupancy, Gather, Skip
  <1>2. PresentKnown'
    BY <1>1 DEF PresentKnown
  <1>3. Shapes'
    BY <1>1 DEF Shapes, InputsType
  <1>4. ReadingsTrue'
    <2>1. CASE inputs' = [inputs EXCEPT !.stuck = leases]
      BY <1>1, <2>1 DEF ReadingsTrue, PresentKnown, Shapes, InputsType
    <2>2. CASE inputs' = [inputs EXCEPT !.availability = usable]
      BY <1>1, <2>2 DEF ReadingsTrue, PresentKnown, Shapes, InputsType
    <2>3. CASE inputs' = [inputs EXCEPT !.bin = Freed(reserved)] /\ req.reservation # None
      BY <1>1, <2>3 DEF ReadingsTrue, PresentKnown, Shapes, InputsType
    <2> QED
      BY <1>1, <2>1, <2>2, <2>3 DEF ReadingsTrue
  <1>5. RevokeGrounded' /\ StrandedIsSeen'
    BY <1>1 DEF RevokeGrounded, StrandedIsSeen, Returned
  <1> QED
    BY <1>2, <1>3, <1>4, <1>5

\* The reply says of the contexts what the readings say.
LEMMA ReplyPreserves ==
    ASSUME IInv, Reply  PROVE IInv'
  <1> USE DEF IInv, Reply, world
  <1>1. Shapes' /\ PresentKnown' /\ ReadingsTrue'
    BY DEF Shapes, PresentKnown, ReadingsTrue
  <1>2. RevokeGrounded'
    <2> SUFFICES ASSUME Evaluate(req, inputs).action = "revoke_reservation"
                 PROVE  /\ req.type \in since.stuck /\ since.low <= req.threshold
                        /\ Evaluate(req, inputs).reservation = req.reservation
                        /\ req.reservation # None
                        /\ \E b \in since.bins : Evaluate(req, inputs).freed = Freed(b)
      BY DEF RevokeGrounded, Returned, Freed
    <2>1. req.threshold \in Int /\ since.low \in Int
      BY StrandedAssumption DEF Shapes, Requests, SinceType
    <2>2. inputs.availability \in Int \cup {None}
      BY DEF Shapes, InputsType
    <2> HIDE DEF Reply
    <2> QED
      BY <2>1, <2>2, RevokeNeeds DEF ReadingsTrue
  <1>3. StrandedIsSeen'
    <2> SUFFICES ASSUME req.type \in TaskTypes, req.type \in since.always,
                        since.high <= req.threshold,
                        inputs.stuck # None, inputs.availability # None
                 PROVE  /\ Evaluate(req, inputs).detected
                        /\ inputs.bin # None =>
                             Evaluate(req, inputs).action = "revoke_reservation"
      BY DEF StrandedIsSeen, Returned
    <2>1. req.threshold \in Int /\ since.high \in Int
      BY StrandedAssumption DEF Shapes, Requests, SinceType
    <2>2. inputs.availability \in Int
      BY DEF Shapes, InputsType
    <2>3. req.type \in inputs.stuck /\ ~(inputs.availability > req.threshold)
      BY <2>1, <2>2 DEF ReadingsTrue
    <2> HIDE DEF Reply
    <2> QED
      BY <2>3, CorrelationIsDetected DEF ReadingsTrue
  <1> QED
    BY <1>1, <1>2, <1>3

\* The contexts at work only add to the history.
LEMMA WorldPreserves ==
    ASSUME IInv, LeasesChange \/ StockMoves  PROVE IInv'
  <1> USE DEF IInv
  <1>1. CASE LeasesChange
    <2>1. /\ since' = [since EXCEPT !.stuck = since.stuck \cup leases',
                                     !.always = since.always \cap leases']
          /\ leases' \in SUBSET Types
          /\ UNCHANGED <<usable, reserved, pc, req, inputs, reply>>
      BY <1>1 DEF LeasesChange
    <2>2. /\ since'.stuck = since.stuck \cup leases'
          /\ since'.always = since.always \cap leases'
          /\ since'.low = since.low /\ since'.high = since.high
          /\ since'.bins = since.bins
          /\ since' \in SinceType
      BY <2>1 DEF Shapes, SinceType
    <2>3. Shapes' /\ PresentKnown'
      BY <2>1, <2>2 DEF Shapes, PresentKnown
    <2>4. ReadingsTrue'
      BY <2>1, <2>2 DEF ReadingsTrue
    <2>5. RevokeGrounded' /\ StrandedIsSeen'
      BY <2>1, <2>2 DEF RevokeGrounded, StrandedIsSeen, Returned
    <2> QED
      BY <2>3, <2>4, <2>5
  <1>2. CASE StockMoves
    <2>1. /\ since' = [since EXCEPT
                !.low = IF usable' < since.low THEN usable' ELSE since.low,
                !.high = IF usable' > since.high THEN usable' ELSE since.high,
                !.bins = since.bins \cup {reserved'}]
          /\ usable' \in Int /\ reserved' \in SUBSET Units
          /\ UNCHANGED <<leases, pc, req, inputs, reply>>
      BY <1>2, StrandedAssumption DEF StockMoves
    <2>2. /\ since'.low = IF usable' < since.low THEN usable' ELSE since.low
          /\ since'.high = IF usable' > since.high THEN usable' ELSE since.high
          /\ since'.bins = since.bins \cup {reserved'}
          /\ since'.stuck = since.stuck /\ since'.always = since.always
          /\ since' \in SinceType
      BY <2>1 DEF Shapes, SinceType
    <2>3. since.low \in Int /\ since.high \in Int
      BY DEF Shapes, SinceType
    <2>4. Shapes' /\ PresentKnown'
      BY <2>1, <2>2, <2>3 DEF Shapes, PresentKnown
    <2>5. ReadingsTrue'
      <3>1. inputs.availability \in Int \cup {None}
        BY DEF Shapes, InputsType
      <3> QED
        BY <2>1, <2>2, <2>3, <3>1 DEF ReadingsTrue
    <2>6. RevokeGrounded' /\ StrandedIsSeen'
      <3>1. req.threshold \in Int
        BY StrandedAssumption DEF Shapes, Requests
      <3>2. since'.low <= since.low /\ since.bins \subseteq since'.bins
        BY <2>1, <2>2, <2>3
      <3>3. RevokeGrounded'
        <4> SUFFICES ASSUME Returned, reply.action = "revoke_reservation"
                     PROVE  /\ since'.low <= req.threshold
                            /\ \E b \in since'.bins : reply.freed = Cardinality(b \cap OwnSku)
          BY <2>1, <2>2 DEF RevokeGrounded, Returned
        <4>1. since'.low <= req.threshold
          BY <2>1, <2>2, <2>3, <3>1, <3>2 DEF RevokeGrounded
        <4>2. \E b \in since'.bins : reply.freed = Cardinality(b \cap OwnSku)
          BY <3>2 DEF RevokeGrounded
        <4> QED
          BY <4>1, <4>2
      <3>4. StrandedIsSeen'
        BY <2>1, <2>2, <2>3, <3>1 DEF StrandedIsSeen, Returned
      <3> QED
        BY <3>3, <3>4
    <2> QED
      BY <2>4, <2>5, <2>6
  <1> QED
    BY <1>1, <1>2

-----------------------------------------------------------------------------
(* The theorems.                                                           *)

\* Execute: in every state the readings gathered so far were true since the
\* request, and the latest reply is grounded in them.
THEOREM Invariance == Spec => []IInv
  <1>1. Init => IInv
    <2> SUFFICES ASSUME Init PROVE IInv
      OBVIOUS
    <2>1. Shapes
      BY StrandedAssumption, FreshHistory DEF Init, Shapes
    <2>2. PresentKnown
      BY <2>1 DEF Init, PresentKnown, Now, Shapes
    <2>3. ReadingsTrue /\ RevokeGrounded /\ StrandedIsSeen
      BY DEF Init, ReadingsTrue, NoInputs, RevokeGrounded, StrandedIsSeen, Returned
    <2> QED
      BY <2>1, <2>2, <2>3 DEF IInv
  <1>2. IInv /\ [Next]_vars => IInv'
    <2> SUFFICES ASSUME IInv, [Next]_vars PROVE IInv'
      OBVIOUS
    <2>1. CASE UNCHANGED vars
      BY <2>1 DEF vars, IInv, Shapes, PresentKnown, ReadingsTrue, RevokeGrounded,
         StrandedIsSeen, Returned
    <2> QED
      BY <2>1, RequestPreserves, GatheringPreserves, ReplyPreserves, WorldPreserves
      DEF Next
  <1> QED
    BY <1>1, <1>2, PTL DEF Spec

\* Evaluate, revokeException: whatever the contexts do between the readings, a
\* revoke rests on an expired lease and a shortfall of this very request.
THEOREM RevokesAreGrounded == Spec => []RevokeGrounded
  <1>1. IInv => RevokeGrounded
    BY DEF IInv
  <1> QED
    BY <1>1, Invariance, PTL

\* Execute, Evaluate: what stays stranded for the whole request is detected
\* unless a reading is missing.
THEOREM StrandedReservationsAreSeen == Spec => []StrandedIsSeen
  <1>1. IInv => StrandedIsSeen
    BY DEF IInv
  <1> QED
    BY <1>1, Invariance, PTL

-----------------------------------------------------------------------------
(* The trail.  A returned reply is the rule applied to the readings still  *)
(* at hand, so its last entry can be held against them.                    *)

Applied == pc = "ready" => reply = NoReply \/ reply = Evaluate(req, inputs)

Correlated(e) == Append(<<"stuck", "availability">>, e)

\* Append.
LEMMA AppendOne ==
    ASSUME NEW S, NEW s \in Seq(S), NEW e \in S
    PROVE  /\ Len(Append(s, e)) = Len(s) + 1 /\ Append(s, e)[Len(s) + 1] = e
           /\ \A i \in 1..Len(s) : Append(s, e)[i] = s[i]
  OBVIOUS

\* The trail of two correlated readings and what was decided on them.
LEMMA TrailFields ==
    ASSUME NEW e
    PROVE  /\ Len(Correlated(e)) = 3 /\ Correlated(e)[3] = e
           /\ Correlated(e)[1] = "stuck" /\ Correlated(e)[2] = "availability"
           /\ Correlated(e) # <<>>
  <1> DEFINE S == {"stuck", "availability", e}
  <1>1. /\ <<"stuck", "availability">> \in Seq(S) /\ e \in S
        /\ Len(<<"stuck", "availability">>) = 2
        /\ <<"stuck", "availability">>[1] = "stuck"
        /\ <<"stuck", "availability">>[2] = "availability"
    OBVIOUS
  <1> HIDE DEF S
  <1>2. /\ Len(Correlated(e)) = 2 + 1 /\ Correlated(e)[2 + 1] = e
        /\ \A i \in 1..2 : Correlated(e)[i] = <<"stuck", "availability">>[i]
    BY <1>1, AppendOne DEF Correlated
  <1>3. Correlated(e) # <<>>
    BY <1>2
  <1> QED
    BY <1>1, <1>2, <1>3

\* Every way out of Evaluate: an error, or a trail whose last entry decided.
Explains(e, r, in) ==
    \/ e.error = TRUE
    \/ e.evidence = <<"stuck">> /\ e.detected = FALSE
       /\ (in.stuck = None \/ r.type \notin in.stuck)
    \/ e.evidence = <<"stuck", "availability">> /\ e.detected = FALSE
       /\ (in.availability = None \/ in.availability > r.threshold)
    \/ e.evidence = Correlated("policy") /\ r.reservation = None
    \/ e.evidence = Correlated("bin")
       /\ (e.action = "revoke_reservation" \/ in.bin = None)

\* holdException, revokeException: each branch of Evaluate explains itself.
LEMMA EvaluateExplains == ASSUME NEW r, NEW in PROVE Explains(Evaluate(r, in), r, in)
  <1> DEFINE e == Evaluate(r, in)
  <1>1. CASE r.type \notin TaskTypes
    <2>1. e.error = TRUE
      BY <1>1 DEF Evaluate, NoReply
    <2> QED
      BY <2>1 DEF Explains
  <1>2. CASE r.type \in TaskTypes /\ (in.stuck = None \/ StuckByType(in.stuck, r.type) = {})
    <2>1. e = HoldException(FALSE, None, <<"stuck">>)
      BY <1>2 DEF Evaluate
    <2>2. e.evidence = <<"stuck">> /\ e.detected = FALSE
      BY <2>1 DEF HoldException
    <2>3. in.stuck = None \/ r.type \notin in.stuck
      BY <1>2 DEF StuckByType
    <2> QED
      BY <2>2, <2>3 DEF Explains
  <1>3. CASE r.type \in TaskTypes /\ ~(in.stuck = None \/ StuckByType(in.stuck, r.type) = {})
    <2>1. e = Correlate(r, in)
      BY <1>3 DEF Evaluate
    <2>2. CASE in.availability = None \/ in.availability > r.threshold
      <3>1. e = HoldException(FALSE, None, <<"stuck", "availability">>)
        BY <2>1, <2>2 DEF Correlate
      <3>2. e.evidence = <<"stuck", "availability">> /\ e.detected = FALSE
        BY <3>1 DEF HoldException
      <3> QED
        BY <2>2, <3>2 DEF Explains
    <2>3. CASE ~(in.availability = None \/ in.availability > r.threshold)
      <3>1. e = RankRevoke(r, in, <<"stuck", "availability">>)
        BY <2>1, <2>3 DEF Correlate
      <3>2. CASE r.reservation = None
        <4>1. e.evidence = Correlated("policy")
          BY <3>1, <3>2 DEF RankRevoke, HoldException, Correlated
        <4> QED
          BY <3>2, <4>1 DEF Explains
      <3>3. CASE r.reservation # None /\ in.bin = None
        <4>1. e.evidence = Correlated("bin")
          BY <3>1, <3>3 DEF RankRevoke, HoldException, Correlated
        <4> QED
          BY <3>3, <4>1 DEF Explains
      <3>4. CASE r.reservation # None /\ in.bin # None
        <4>1. e.evidence = Correlated("bin") /\ e.action = "revoke_reservation"
          BY <3>1, <3>4 DEF RankRevoke, RevokeException, Correlated
        <4> QED
          BY <4>1 DEF Explains
      <3> QED
        BY <3>2, <3>3, <3>4
    <2> QED
      BY <2>2, <2>3
  <1> QED
    BY <1>1, <1>2, <1>3

\* A reply that explains itself satisfies HoldExplained.
LEMMA ExplainedHolds == ASSUME Explains(reply, req, inputs) PROVE HoldExplained
  <1> SUFFICES ASSUME Returned, ~reply.error
               PROVE  /\ reply.evidence # <<>>
                      /\ reply.action = "hold" => Decisive
                      /\ reply.detected => {"stuck", "availability"} \subseteq
                             {reply.evidence[i] : i \in 1..Len(reply.evidence)}
    BY DEF HoldExplained
  <1> DEFINE last == reply.evidence[Len(reply.evidence)]
  <1>1. CASE reply.evidence = <<"stuck">> /\ reply.detected = FALSE
             /\ (inputs.stuck = None \/ req.type \notin inputs.stuck)
    <2>1. last = "stuck" /\ reply.evidence # <<>>
      BY <1>1
    <2> QED
      BY <1>1, <2>1 DEF Decisive
  <1>2. CASE reply.evidence = <<"stuck", "availability">> /\ reply.detected = FALSE
             /\ (inputs.availability = None \/ inputs.availability > req.threshold)
    <2>1. last = "availability" /\ reply.evidence # <<>>
      BY <1>2
    <2> QED
      BY <1>2, <2>1 DEF Decisive
  <1>3. CASE reply.evidence = Correlated("policy") /\ req.reservation = None
    <2>1. last = "policy" /\ reply.evidence # <<>>
      BY <1>3, TrailFields
    <2>2. {"stuck", "availability"} \subseteq {reply.evidence[i] : i \in 1..Len(reply.evidence)}
      BY <1>3, TrailFields
    <2> QED
      BY <1>3, <2>1, <2>2 DEF Decisive
  <1>4. CASE reply.evidence = Correlated("bin")
             /\ (reply.action = "revoke_reservation" \/ inputs.bin = None)
    <2>1. last = "bin" /\ reply.evidence # <<>>
      BY <1>4, TrailFields
    <2>2. {"stuck", "availability"} \subseteq {reply.evidence[i] : i \in 1..Len(reply.evidence)}
      BY <1>4, TrailFields
    <2> QED
      BY <1>4, <2>1, <2>2 DEF Decisive
  <1> QED
    BY <1>1, <1>2, <1>3, <1>4 DEF Explains

\* Evaluate's degrade path: for every request and every mix of readings, the
\* trail of a hold ends with the reading that decided it.
THEOREM HoldsAreExplained == Spec => []HoldExplained
  <1>1. Init => Applied
    BY DEF Init, Applied
  <1>2. Applied /\ [Next]_vars => Applied'
    <2> SUFFICES ASSUME Applied, [Next]_vars PROVE Applied'
      OBVIOUS
    <2>1. CASE \E r \in Requests : Request(r)
      BY <2>1 DEF Request, Applied
    <2>2. CASE DiagnoseStuckTasks \/ CheckAvailability \/ GetBinOccupancy
      <3>1. pc' # "ready"
        BY <2>2 DEF DiagnoseStuckTasks, CheckAvailability, GetBinOccupancy, Gather, Skip
      <3> QED
        BY <3>1 DEF Applied
    <2>3. CASE Reply
      <3>1. reply' = Evaluate(req, inputs) /\ req' = req /\ inputs' = inputs
        BY <2>3 DEF Reply
      <3>2. reply' = Evaluate(req', inputs')
        BY <3>1
      <3> QED
        BY <3>2 DEF Applied
    <2>4. CASE LeasesChange \/ StockMoves \/ UNCHANGED vars
      <3>1. UNCHANGED <<pc, req, inputs, reply>>
        BY <2>4 DEF LeasesChange, StockMoves, vars
      <3> QED
        BY <3>1 DEF Applied
    <2> QED
      BY <2>1, <2>2, <2>3, <2>4 DEF Next
  <1>3. Applied => HoldExplained
    <2> SUFFICES ASSUME Applied, Returned PROVE HoldExplained
      BY DEF HoldExplained
    <2>1. reply = Evaluate(req, inputs)
      BY DEF Applied, Returned
    <2> QED
      BY <2>1, EvaluateExplains, ExplainedHolds
  <1> QED
    BY <1>1, <1>2, <1>3, PTL DEF Spec

-----------------------------------------------------------------------------
(* Types.                                                                  *)

Trail == Seq(Tools \cup {"policy"})
Quantities == 0..Cardinality(OwnSku)
ReadingsType == [stuck : (SUBSET Types) \cup {None}, availability : 0..MaxUsable \cup {None},
                 bin : Quantities \cup {None}]
ReplyType == [error : BOOLEAN, detected : BOOLEAN, action : Actions \cup {None},
              reservation : Reservations \cup {None}, evidence : Trail,
              freed : Quantities \cup {None}]

Typed ==
    /\ leases \in SUBSET Types /\ usable \in 0..MaxUsable /\ reserved \in SUBSET Units
    /\ pc \in Tools \cup {"ready", "evaluate"}
    /\ req \in Requests /\ inputs \in ReadingsType /\ reply \in ReplyType

\* toBlastRadius: a bin never holds more of the SKU than there is.
LEMMA FreedBounded == ASSUME NEW b PROVE Freed(b) \in Quantities
  <1>1. IsFiniteSet(OwnSku)
    BY StrandedAssumption, FS_Subset
  <1>2. b \cap OwnSku \subseteq OwnSku
    OBVIOUS
  <1>3. /\ IsFiniteSet(b \cap OwnSku)
        /\ Cardinality(b \cap OwnSku) <= Cardinality(OwnSku)
    BY <1>1, <1>2, FS_Subset
  <1>4. Cardinality(b \cap OwnSku) \in Nat /\ Cardinality(OwnSku) \in Nat
    BY <1>1, <1>3, FS_CardinalityType
  <1> QED
    BY <1>3, <1>4 DEF Freed, Quantities

\* The trails are lists of readings.
LEMMA TrailsTyped ==
    /\ <<>> \in Trail /\ <<"stuck">> \in Trail /\ <<"stuck", "availability">> \in Trail
    /\ Correlated("policy") \in Trail /\ Correlated("bin") \in Trail
  <1>1. <<>> \in Trail /\ <<"stuck">> \in Trail /\ <<"stuck", "availability">> \in Trail
    BY DEF Trail, Tools
  <1>2. ASSUME NEW S, NEW t \in Seq(S), NEW e \in S PROVE Append(t, e) \in Seq(S)
    OBVIOUS
  <1>3. "policy" \in Tools \cup {"policy"} /\ "bin" \in Tools \cup {"policy"}
    BY DEF Tools
  <1> QED
    BY <1>1, <1>2, <1>3 DEF Trail, Correlated

\* Evaluate: whatever the readings, a reply is of its type.
LEMMA EvaluateTyped ==
    ASSUME NEW r \in Requests, NEW in \in ReadingsType
    PROVE  Evaluate(r, in) \in ReplyType
  <1>0. r.reservation \in Reservations \cup {None} /\ in.bin \in Quantities \cup {None}
    BY DEF Requests, ReadingsType
  <1>1. ASSUME NEW d \in BOOLEAN, NEW c \in Reservations \cup {None}, NEW t \in Trail
        PROVE  HoldException(d, c, t) \in ReplyType
    BY DEF HoldException, ReplyType, Actions
  <1>2. ASSUME NEW t \in Trail PROVE RevokeException(r, in, t) \in ReplyType
    BY <1>0 DEF RevokeException, ReplyType, Actions
  <1>3. [NoReply EXCEPT !.error = TRUE] \in ReplyType
    BY TrailsTyped DEF NoReply, ReplyType
  <1>4. RankRevoke(r, in, <<"stuck", "availability">>) \in ReplyType
    BY <1>0, <1>1, <1>2, TrailsTyped DEF RankRevoke, Correlated
  <1>5. Correlate(r, in) \in ReplyType
    BY <1>1, <1>4, TrailsTyped DEF Correlate
  <1> QED
    BY <1>1, <1>3, <1>5, TrailsTyped DEF Evaluate

\* Execute: for every bin and every threshold what it gathers and replies is
\* of its type; the quantity a revoke would free is within the stock.
THEOREM TypeCorrect == Spec => []TypeOK
  <1>1. Init => Typed
    <2>1. NoInputs \in ReadingsType
      BY DEF NoInputs, ReadingsType
    <2>2. NoReply \in ReplyType
      BY TrailsTyped DEF NoReply, ReplyType
    <2> QED
      BY <2>1, <2>2 DEF Init, Typed
  <1>2. Typed /\ [Next]_vars => Typed'
    <2> SUFFICES ASSUME Typed, [Next]_vars PROVE Typed'
      OBVIOUS
    <2>1. CASE \E r \in Requests : Request(r)
      <3>1. NoInputs \in ReadingsType /\ NoReply \in ReplyType
        BY TrailsTyped DEF NoInputs, ReadingsType, NoReply, ReplyType
      <3> QED
        BY <2>1, <3>1 DEF Request, Typed, world, Tools
    <2>2. CASE DiagnoseStuckTasks \/ CheckAvailability \/ GetBinOccupancy
      <3>1. /\ UNCHANGED <<leases, usable, reserved, req, reply>>
            /\ pc' \in Tools \cup {"ready", "evaluate"}
            /\ \/ inputs' = [inputs EXCEPT !.stuck = leases]
               \/ inputs' = [inputs EXCEPT !.availability = usable]
               \/ inputs' = [inputs EXCEPT !.bin = Freed(reserved)]
               \/ inputs' = inputs
        BY <2>2 DEF DiagnoseStuckTasks, CheckAvailability, GetBinOccupancy, Gather, Skip,
           world, Tools
      <3>2. Freed(reserved) \in Quantities
        BY FreedBounded
      <3>3. inputs' \in ReadingsType
        BY <3>1, <3>2 DEF Typed, ReadingsType
      <3> QED
        BY <3>1, <3>3 DEF Typed
    <2>3. CASE Reply
      <3>1. Evaluate(req, inputs) \in ReplyType
        BY EvaluateTyped DEF Typed
      <3> QED
        BY <2>3, <3>1 DEF Reply, Typed, world
    <2>4. CASE LeasesChange \/ StockMoves \/ UNCHANGED vars
      BY <2>4 DEF LeasesChange, StockMoves, vars, Typed
    <2> QED
      BY <2>1, <2>2, <2>3, <2>4 DEF Next
  <1>3. Typed => TypeOK
    BY DEF Typed, TypeOK, ReadingsType, ReplyType, Trail, Quantities
  <1> QED
    BY <1>1, <1>2, <1>3, PTL DEF Spec
=============================================================================
