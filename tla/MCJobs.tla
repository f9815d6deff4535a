-------------------------------- MODULE MCJobs --------------------------------
(***************************************************************************)
(* Jobs for TLC: the alert loop with a database finding and a threat on one*)
(* device and an endpoint finding on it too; the scanner with an           *)
(* organisation A that has the scanner's host and a neighbour and an       *)
(* organisation B that has a device of its own.                            *)
(***************************************************************************)
EXTENDS Jobs, Sequences

CONSTANTS d1, d2, A, B, host, n1, other

Finding(source, device) == [source |-> source, device |-> device, version |-> 1]
MCFindings == {Finding(source, d1) : source \in Sources}
OwnNames == [d \in Devices |-> IF d = d1 THEN "laptop" ELSE "printer"]

MCOrgs == <<A, B>>
MCByIp == <<n1, host, other>>
MCOwner == [d \in {n1, host, other} |-> IF d = other THEN B ELSE A]
=============================================================================
