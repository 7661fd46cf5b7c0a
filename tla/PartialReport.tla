---------------------------- MODULE PartialReport ----------------------------
(***************************************************************************)
(* What every report of the agent promises, whatever it reads and in which *)
(* order: "degrade, never fail".  A report has parts, each filled by its   *)
(* own source.  A part is settled once, by an answer or by a failure, and  *)
(* stays so; the report is handed out once, when every part is settled,    *)
(* and shows each part as its source left it.                              *)
(*                                                                         *)
(* ConsoleReports, DailyBrief and RuntimeSignals implement this.           *)
(***************************************************************************)
CONSTANT Parts

VARIABLES
    outcome,  \* how each part was settled
    shown     \* what the report handed out says of each part

vars == <<outcome, shown>>

Outcomes == {"answered", "failed"}
Nothing == [p \in Parts |-> "nothing"]

Init ==
    /\ outcome = [p \in Parts |-> "pending"]
    /\ shown = Nothing

Settle(p) ==
    /\ outcome[p] = "pending"
    /\ \E o \in Outcomes : outcome' = [outcome EXCEPT ![p] = o]
    /\ UNCHANGED shown

HandOut ==
    /\ shown = Nothing
    /\ \A p \in Parts : outcome[p] # "pending"
    /\ shown' = outcome
    /\ UNCHANGED outcome

Next == HandOut \/ \E p \in Parts : Settle(p)

Spec == Init /\ [][Next]_vars
=============================================================================
