------------------------------ MODULE MCCanvas ------------------------------
(* The canary, whose dial goes from none to more replicas than it has, and a  *)
(* tier that is switched.                                                     *)
EXTENDS ClusterCanvas

MCReplicas == [canary |-> {"a"}, redis |-> {"r"}]
=============================================================================
