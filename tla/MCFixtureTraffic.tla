--------------------------- MODULE MCFixtureTraffic ---------------------------
(* FixtureTraffic with three attempts and two requests.                       *)
EXTENDS FixtureTraffic
=============================================================================
