---------------------------- MODULE MCRouteHarness ----------------------------
(* Small instances of RouteHarness for TLC. *)
EXTENDS RouteHarness
===============================================================================
