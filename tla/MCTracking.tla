------------------------------ MODULE MCTracking ----------------------------
(* The instance of Tracking for TLC is given by its configuration alone.     *)
EXTENDS Tracking
=============================================================================
