----------------------- MODULE MCStrandedReservation -----------------------
(***************************************************************************)
(* A bin of two units, one of the SKU under suspicion, one known task type *)
(* and one unknown, usable stock at, and one above, the threshold.         *)
(***************************************************************************)
EXTENDS StrandedReservation

MCTaskTypes == {"PICK"}
MCAlienTypes == {"SORT"}
MCUnits == {"own", "other"}
MCOwnSku == {"own"}
MCThresholds == {0}
=============================================================================
