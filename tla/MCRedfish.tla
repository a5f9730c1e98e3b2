----------------------------- MODULE MCRedfish -----------------------------
(* Small instances of Redfish: two virtual media devices, of which the     *)
(* second is the CD drive, so that the search for it takes two turns.       *)
EXTENDS Redfish

MCCDMedia == {2}
MCBothCD == {1, 2}
=============================================================================
