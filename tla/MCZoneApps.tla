----------------------------- MODULE MCZoneApps -----------------------------
(* Instances of ZoneApps for TLC. *)
EXTENDS ZoneApps
=============================================================================
