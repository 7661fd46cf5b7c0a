-------------------------- MODULE MCConsoleReports --------------------------
(***************************************************************************)
(* The four sections of the WES dashboard, one of them without a client.   *)
(***************************************************************************)
EXTENDS ConsoleReports

MCWired == {1, 2, 4}
=============================================================================
