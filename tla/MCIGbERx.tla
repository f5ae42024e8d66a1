------------------------------ MODULE MCIGbERx -------------------------------
(* Instances of IGbERx for TLC. *)
EXTENDS IGbERx
=============================================================================
