------------------------- MODULE MCEndpointTelemetry -------------------------
(***************************************************************************)
(* Instances of EndpointTelemetry for TLC: keys are pairs of an            *)
(* organisation and a device.                                              *)
(***************************************************************************)
EXTENDS EndpointTelemetry

CONSTANTS o1, o2, d1, d2

MCOrgs == {o1, o2}
\* A device of each organisation and a second one of the first, which fails.
MCKeys == {<<o1, d1>>, <<o1, d2>>, <<o2, d1>>}
SecondFails == {<<o1, d2>>}
MCOrgOf == [k \in MCKeys |-> k[1]]

=============================================================================
