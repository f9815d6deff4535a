------------------------------ MODULE MCAutoScan ------------------------------
(***************************************************************************)
(* Instances of AutoScan for TLC: organisation A has the scanner's host    *)
(* and two neighbours, organisation B has a device of its own.             *)
(***************************************************************************)
EXTENDS AutoScan

CONSTANTS A, B, host, n1, n2, other

MCOrgs == <<A, B>>
MCDevices == <<n1, host, n2, other>>
MCOwner == [d \in Hosts |-> IF d = other THEN B ELSE A]

=============================================================================
