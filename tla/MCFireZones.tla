---------------------------- MODULE MCFireZones ----------------------------
(* An instance of FireZones: zones that overlap, and a place outside.      *)
EXTENDS FireZones

CONSTANTS p1, p2

MCZones == {{p1}, {p1, p2}}
=============================================================================
