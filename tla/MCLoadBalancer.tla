--------------------------- MODULE MCLoadBalancer ---------------------------
(* Small instances of LoadBalancer for TLC.                                 *)
EXTENDS LoadBalancer
=============================================================================
