------------------------------- MODULE MCEdge -------------------------------
(* An instance of Edge for TLC.                                            *)
EXTENDS Edge

TwoProxies == <<"outer", "inner">>

SmallLimits == [read |-> 2, write |-> 1, expensive |-> 1]

=============================================================================
