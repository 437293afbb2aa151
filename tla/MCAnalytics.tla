----------------------------- MODULE MCAnalytics ----------------------------
(* An instance of Analytics for TLC.  Shipments, companies and drivers are   *)
(* interchangeable: no property names one.                                   *)
EXTENDS Analytics, TLC

AnalyticsSymmetry ==
  Permutations(ShipmentIds) \cup Permutations(Companies)
    \cup Permutations(Drivers)

=============================================================================
