---------------------------- MODULE MCDaemonSet ----------------------------
(* A load balancer that moves between two specifications; n1 exists from the
   start, other nodes may come. *)
EXTENDS DaemonSet

CONSTANT n1

MCWide == [on |-> {"a", "b"}, ips |-> "x"]
MCNarrow == [on |-> {"a"}, ips |-> "y"]
MCSpecs == {MCWide, MCNarrow}
MCNodes == [n \in Node |-> IF n = n1 THEN "b" ELSE Nil]
=============================================================================
