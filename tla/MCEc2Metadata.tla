--------------------------- MODULE MCEc2Metadata ---------------------------
(***************************************************************************)
(* Ec2Metadata for TLC: two monitors.                                      *)
(***************************************************************************)
EXTENDS Ec2Metadata

CONSTANTS m1, m2
=============================================================================
