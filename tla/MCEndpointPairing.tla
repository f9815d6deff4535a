-------------------------- MODULE MCEndpointPairing --------------------------
(***************************************************************************)
(* Instances of EndpointPairing for TLC: one request at a time, and two    *)
(* handlers that interleave.                                               *)
(***************************************************************************)
EXTENDS EndpointPairing
=============================================================================
