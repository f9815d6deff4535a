-------------------------- MODULE MCTrackingSession --------------------------
(***************************************************************************)
(* Instances of TrackingSession for TLC: devices d1 and d2, and an address *)
(* outside, so that d1 and d2 also talk to each other.                     *)
(***************************************************************************)
EXTENDS TrackingSession

CONSTANTS d1, d2, out

Wire == {d1, d2, out}

=============================================================================
