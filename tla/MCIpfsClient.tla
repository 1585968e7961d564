---------------------------- MODULE MCIpfsClient ----------------------------
(***************************************************************************)
(* IpfsClient for TLC: processes with and without a configured gateway.    *)
(***************************************************************************)
EXTENDS IpfsClient

CONSTANTS p1, g1

NoneConfigured == [p \in Processes |-> None]
OneConfigured == [p \in Processes |-> IF p = p1 THEN None ELSE g1]
=============================================================================
