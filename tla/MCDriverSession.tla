---------------------------- MODULE MCDriverSession ----------------------------
(* DriverSession with the adapter and two other process numbers, each of      *)
(* which may be taken by a child or by a stranger.                            *)
EXTENDS DriverSession
=============================================================================
